---- MODULE Spec2Model ----
(***************************************************************************)
(* Model of the OpenAI-compatible gateway of open-webui with the Notion    *)
(* integration: backend/open_webui/routers/openai.py                       *)
(* (generate_chat_completion, get_all_models), the tool helpers of         *)
(* utils/integrations/notion.py and utils/openai_tools.py, and the         *)
(* per-user integration store of models/integrations.py.                   *)
(***************************************************************************)
EXTENDS Integers, Sequences, FiniteSets, TLC

(***************************************************************************)
(* Bounds of the model.                                                    *)
(***************************************************************************)
\* completion requests submitted to the gateway, one after the other
MaxRequests == 1
\* chunks an upstream may send on one event stream
MaxChunks == 1
\* operations on a registry that changes: requests that call
\* get_all_models and update_config calls, together
MaxOperations == 3
\* chunks an upstream may send on a relayed event stream
MaxRelayed == 3
\* calls of GET /models and of update_config, together, at the catalog endpoint
MaxListings == 2
\* databases the Notion API may return for one call
MaxDatabases == 2

(***************************************************************************)
(* Python values.  A JSON value that can arrive as the "arguments" of a    *)
(* tool call is a record [t, s, d]: its type, its text when it is a        *)
(* string, its members when it is an object.                               *)
(***************************************************************************)
PyNone == "None"

EmptyDict == [k \in {} |-> ""]

StrVal(s) == [t |-> "str", s |-> s, d |-> EmptyDict]

ObjVal(d) == [t |-> "dict", s |-> "", d |-> d]

NoneVal == [t |-> "none", s |-> "", d |-> EmptyDict]

ListVal == [t |-> "list", s |-> "", d |-> EmptyDict]

IntVal == [t |-> "int", s |-> "", d |-> EmptyDict]

QueryDict == [k \in {"query"} |-> "q"]

DatabaseDict == [k \in {"database_id"} |-> "db1"]

PageDict == [k \in {"page_id", "properties"} |-> IF k = "page_id" THEN "p1" ELSE "props"]

NewPageDict == [k \in {"parent", "properties"} |-> IF k = "parent" THEN "db1" ELSE "props"]

\* the argument texts and values a model may emit
ArgStrings == {"", " ", "{}", " {} ", "{", "null", "[1]", "3", "\"x\"",
               "{\"query\":\"q\"}", "{\"database_id\":\"db1\"}"}

RawArguments == {StrVal(s) : s \in ArgStrings}
                  \cup {NoneVal, ListVal, IntVal, ObjVal(EmptyDict),
                        ObjVal(QueryDict), ObjVal(DatabaseDict), ObjVal(PageDict),
                        ObjVal(NewPageDict)}

\* str.strip()
Strip(s) == CASE s = " " -> ""
              [] s = " {} " -> "{}"
              [] OTHER -> s

\* json.loads: ok = FALSE stands for json.JSONDecodeError
JsonLoads(s) == CASE s = "{}" -> [ok |-> TRUE, v |-> ObjVal(EmptyDict)]
                  [] s = " {} " -> [ok |-> TRUE, v |-> ObjVal(EmptyDict)]
                  [] s = "null" -> [ok |-> TRUE, v |-> NoneVal]
                  [] s = "[1]" -> [ok |-> TRUE, v |-> ListVal]
                  [] s = "3" -> [ok |-> TRUE, v |-> IntVal]
                  [] s = "\"x\"" -> [ok |-> TRUE, v |-> StrVal("x")]
                  [] s = "{\"query\":\"q\"}" -> [ok |-> TRUE, v |-> ObjVal(QueryDict)]
                  [] s = "{\"database_id\":\"db1\"}" -> [ok |-> TRUE, v |-> ObjVal(DatabaseDict)]
                  [] OTHER -> [ok |-> FALSE, v |-> NoneVal]

\* dict.get(key, default)
DictGet(d, key, default) == IF key \in DOMAIN d THEN d[key] ELSE default

(***************************************************************************)
(* utils/integrations/notion.py                                            *)
(***************************************************************************)
NotionFunctions == {"search_notion", "list_notion_databases", "query_notion_database",
                    "create_notion_page", "update_notion_page"}

\* notion.py lines 60, 72, 114, 157, 182: the arguments that the declared
\* tool definition of the function marks as required
Required(name) ==
    CASE name = "search_notion" -> {"query"}
      [] name = "query_notion_database" -> {"database_id"}
      [] name = "create_notion_page" -> {"parent", "properties"}
      [] name = "update_notion_page" -> {"page_id", "properties"}
      [] OTHER -> {}

\* lines 210-223: a string is parsed, an unparsable one becomes {}
ParseStringArguments(arguments) ==
    IF arguments.t = "str"
    THEN IF Strip(arguments.s) = "{}" \/ Strip(arguments.s) = ""
         THEN ObjVal(EmptyDict)
         ELSE IF JsonLoads(arguments.s).ok
              THEN JsonLoads(arguments.s).v
              ELSE ObjVal(EmptyDict)
    ELSE arguments

\* lines 226-228 left out: a value that is not an object is kept
CoerceKeepingNonObjects(arguments) == arguments

\* lines 226-228: None and every value that is not an object become {}
CoerceToDict(arguments) ==
    IF arguments.t = "none" \/ arguments.t # "dict" THEN ObjVal(EmptyDict) ELSE arguments

\* lines 233-287: the action and parameters of a function name; a .get on
\* a value that is not an object raises AttributeError
MapFunction(function_name, a) ==
    CASE function_name = "list_notion_databases" ->
            [raised |-> FALSE, action |-> "list_notion_databases", params |-> EmptyDict]
      [] function_name \in NotionFunctions \ {"list_notion_databases"} /\ a.t # "dict" ->
            [raised |-> TRUE, action |-> "", params |-> EmptyDict]
      [] function_name = "search_notion" /\ a.t = "dict" ->
            [raised |-> FALSE, action |-> "search",
             params |-> [query |-> DictGet(a.d, "query", ""),
                         filter |-> DictGet(a.d, "filter", PyNone),
                         sort |-> DictGet(a.d, "sort", PyNone)]]
      [] function_name = "query_notion_database" /\ a.t = "dict" ->
            [raised |-> FALSE, action |-> "query_database",
             params |-> [database_id |-> DictGet(a.d, "database_id", PyNone),
                         filter |-> DictGet(a.d, "filter", PyNone),
                         sorts |-> DictGet(a.d, "sorts", PyNone),
                         page_size |-> DictGet(a.d, "page_size", "10")]]
      [] function_name = "create_notion_page" /\ a.t = "dict" ->
            [raised |-> FALSE, action |-> "create_page",
             params |-> [parent |-> DictGet(a.d, "parent", PyNone),
                         properties |-> DictGet(a.d, "properties", "{}"),
                         children |-> DictGet(a.d, "children", "[]")]]
      [] function_name = "update_notion_page" /\ a.t = "dict" ->
            [raised |-> FALSE, action |-> "update_page",
             params |-> [page_id |-> DictGet(a.d, "page_id", PyNone),
                         properties |-> DictGet(a.d, "properties", "{}"),
                         archived |-> DictGet(a.d, "archived", PyNone)]]
      [] OTHER ->
            [raised |-> FALSE, action |-> "unknown",
             params |-> [function_name |-> function_name, arguments |-> a]]

handle_notion_function_execution(function_name, arguments) ==
    MapFunction(function_name, CoerceToDict(ParseStringArguments(arguments)))

\* Python truthiness of the parameter values of the model
Falsy(v) == v \in {PyNone, "", "{}", "[]"}

\* lines 290-449: the summary handed to the model.  result is the dict
\* that execute_notion_tool returned, read with .get as the code reads it
format_notion_api_result_for_llm(result, function_name) ==
    LET results == DictGet(result, "results", <<>>)
        is_database(item) == DictGet(item, "object", PyNone) = "database"
        is_page(item) == DictGet(item, "object", PyNone) = "page"
        RECURSIVE text_of(_)
        text_of(title) ==
            IF title = <<>> THEN ""
            ELSE (IF DictGet(title[1], "type", PyNone) = "text"
                  THEN DictGet(DictGet(title[1], "text", EmptyDict), "content", "")
                  ELSE "") \o text_of(Tail(title))
        found == SelectSeq(results, is_database)
        pages == SelectSeq(results, is_page)
    IN  IF DictGet(result, "error", FALSE) = TRUE
        THEN [status |-> "error",
              message |-> DictGet(result, "message", "An error occurred with the Notion API"),
              details |-> result]
        ELSE IF \/ function_name = "list_notion_databases"
                \/ function_name = "search_notion" /\ found # <<>>
        THEN [status |-> "success",
              databases |-> [k \in DOMAIN found |->
                                [id |-> DictGet(found[k], "id", PyNone),
                                 title |-> IF text_of(DictGet(found[k], "title", <<>>)) # ""
                                           THEN text_of(DictGet(found[k], "title", <<>>))
                                           ELSE "Untitled Database",
                                 url |-> DictGet(found[k], "url", PyNone),
                                 last_edited_time |->
                                     DictGet(found[k], "last_edited_time", PyNone)]],
              count |-> Len(found)]
        ELSE IF function_name = "query_notion_database"
        THEN [status |-> "success",
              pages |-> [k \in DOMAIN pages |->
                            [id |-> DictGet(pages[k], "id", PyNone),
                             url |-> DictGet(pages[k], "url", PyNone)]],
              count |-> Len(pages),
              has_more |-> DictGet(result, "has_more", FALSE)]
        ELSE [status |-> "success", result |-> result]

(***************************************************************************)
(* utils/openai_tools.py                                                   *)
(***************************************************************************)
\* lines 111-117: NOTION_ACCESS_TOKEN of the process environment, when set,
\* replaces the token passed by the caller
EffectiveToken(access_token, env_token) ==
    IF env_token # "" THEN env_token ELSE access_token

\* lines 135-348: whether the action reaches its call of the Notion API, or
\* returns an error for a missing parameter or an unknown action before it
ReachesNotion(action_data) ==
    CASE action_data.action \in {"search", "search_notion", "list_databases",
                                 "list_notion_databases"} -> TRUE
      [] action_data.action = "query_database" ->
            ~Falsy(DictGet(action_data.params, "database_id", PyNone))
      [] action_data.action = "create_page" ->
            ~Falsy(DictGet(action_data.params, "database_id", PyNone))
      [] action_data.action = "update_page" ->
            /\ ~Falsy(DictGet(action_data.params, "page_id", PyNone))
            /\ ~Falsy(DictGet(action_data.params, "properties", PyNone))
      [] OTHER -> FALSE

\* the JSON object of a 200 response of the Notion API that holds k
\* databases, one of them with no title
Answer(k) ==
    [results |->
        [i \in 1..k |->
            [object |-> "database", id |-> i, url |-> i, last_edited_time |-> i,
             title |-> IF i = 2 THEN <<>>
                       ELSE <<[type |-> "text", plain_text |-> "Tasks",
                               text |-> [content |-> "Tasks"]]>>]]]

\* lines 135-353: the dict that execute_notion_tool returns; answer is
\* the JSON object of a 200 response
ReturnedResult(action_data, ext, answer) ==
    LET action == action_data.action
        results == DictGet(answer, "results", <<>>)
        RECURSIVE join(_)
        join(texts) ==
            IF texts = <<>> THEN ""
            ELSE IF Len(texts) = 1 THEN texts[1].plain_text
            ELSE texts[1].plain_text \o " " \o join(Tail(texts))
        title_of(db) ==
            LET title == join(SelectSeq(DictGet(db, "title", <<>>),
                                        LAMBDA t : "plain_text" \in DOMAIN t))
            IN  IF title = "" THEN "Untitled Database" ELSE title
    IN  IF ~ReachesNotion(action_data)
        THEN [error |-> TRUE,
              message |-> CASE action \in {"query_database", "create_page"} ->
                                  "Database ID is required"
                            [] action = "update_page" ->
                                  "Page ID and properties are required"
                            [] OTHER -> "Unknown action"]
        ELSE IF ext = "exc"
        THEN [error |-> TRUE, message |-> "Error executing Notion action"]
        ELSE IF ext = "err"
        THEN [error |-> TRUE, message |-> "Notion API error"]
        ELSE CASE action \in {"list_databases", "list_notion_databases"} ->
                    [status |-> "success",
                     databases |-> [k \in DOMAIN results |->
                                       [id |-> DictGet(results[k], "id", PyNone),
                                        title |-> title_of(results[k]),
                                        url |-> DictGet(results[k], "url", "")]],
                     count |-> Len(results),
                     message |-> "Found databases."]
               [] action \in {"search", "search_notion", "query_database"} ->
                    [status |-> "success", results |-> results, count |-> Len(results),
                     message |-> "Found results."]
               [] OTHER ->
                    [status |-> "success",
                     page_id |-> DictGet(answer, "id", PyNone),
                     url |-> DictGet(answer, "url", PyNone),
                     message |-> "Page created or updated successfully."]

\* lines 106-353: ext is what the Notion API does with the call: "ok" (200),
\* "err" (another status), "exc" (the connection fails).  The result is the
\* returned dict, with the call made (called, token) beside it.
execute_notion_tool(action_data, access_token, env_token, ext) ==
    IF ~ReachesNotion(action_data)
    THEN [error |-> TRUE, message |-> "missing parameter or unknown action",
          called |-> FALSE, token |-> ""]
    ELSE [error |-> ext # "ok",
          message |-> CASE ext = "ok" -> ""
                        [] ext = "err" -> "Notion API error"
                        [] OTHER -> "Error executing Notion action",
          called |-> TRUE,
          token |-> EffectiveToken(access_token, env_token)]

(***************************************************************************)
(* The deployment: callers, locally registered models, providers.          *)
(***************************************************************************)
Users == {"u1", "u2"}

\* user.role of the verified caller
Role(u) == IF u = "u1" THEN "admin" ELSE "user"

\* the tokens an integration of caller u may carry
TokensOf(u) == IF u = "u1" THEN {"t1a", "t1b"} ELSE {"t2a", "t2b"}

\* the value of NOTION_ACCESS_TOKEN when the deployment sets it
EnvTokenValue == "envtok"

\* the stream flags a caller may submit
StreamFlags == {FALSE}

\* the model ids a caller may ask for
ModelIds == {"gpt-4", "llama", "custom", "ghost"}

\* Models.get_model_by_id: the locally registered models
RegisteredModels == {"custom", "llama"}

ModelInfo(m) ==
    IF m = "custom"
    THEN [base_model_id |-> "gpt-4", user_id |-> "u2", readers |-> {}]
    ELSE [base_model_id |-> PyNone, user_id |-> "u1", readers |-> {}]

\* has_access(user.id, type="read", access_control=...)
has_access(u, info) == u \in info.readers

\* provider indexes, in configured order
Providers == {0, 1}

OPENAI_API_BASE_URLS == <<"https://api.openai.com/v1", "http://provider-b/v1">>

OPENAI_API_KEYS == <<"key-a", "key-b">>

\* the ids a provider returns from GET {url}/models when it answers
Listing(idx) == IF idx = 0 THEN {"gpt-4"} ELSE {"gpt-4", "llama"}

NoModels == [m \in {} |-> 0]

MaxOf(S) == CHOOSE x \in S : \A y \in S : y <= x

\* get_all_models, lines 399-443: the lists of the providers that answered
\* are merged in provider order and the map id -> model is rebuilt from the
\* merged list, a later entry of an id replacing an earlier one
MergedModels(answered) ==
    [m \in UNION {Listing(idx) : idx \in answered} |->
        MaxOf({idx \in answered : m \in Listing(idx)})]

(***************************************************************************)
(* State.                                                                  *)
(***************************************************************************)
VARIABLES
    integrations,                \* the active integration of each caller: its access token, or "none"
    NOTION_ACCESS_TOKEN,         \* os.environ of the process: "" when unset
    BYPASS_MODEL_ACCESS_CONTROL, \* env.py setting of the deployment
    OPENAI_MODELS,               \* request.app.state.OPENAI_MODELS: id -> urlIdx
    cache,                       \* callers with a live @cached(ttl=3) entry of get_all_models
    req,                         \* the completion request being handled
    nreq,                        \* completion requests submitted so far
    function_name,               \* a call of handle_notion_function_execution:
    arguments,                   \*   its inputs
    action_data,                 \*   and its result
    tool_result,                 \* the execution of that result and the Tool Result made of it
    config,                      \* request.app.state.config: the provider registry
    update,                      \* the update_config call being run, and the updates made
    tasks,                       \* the requests that are inside get_all_models or past it
    installed,                   \* history: the registry as the last finished operation left it
    published,                   \* history: the map the last finished merge produced
    forward,                     \* a payload on its way through lines 652-740
    relay,                       \* an upstream completion call and the relay of its response
    listing,                     \* the call of GET /models being handled, and the calls made
    heap                         \* the list and dict objects the registry and the cache name

vars == <<integrations, NOTION_ACCESS_TOKEN, BYPASS_MODEL_ACCESS_CONTROL, OPENAI_MODELS,
          cache, req, nreq, function_name, arguments, action_data, tool_result,
          config, update, tasks, installed, published, forward, relay, listing, heap>>

listingVars == <<listing, heap>>

pathVars == <<forward, relay, listingVars>>

registryVars == <<config, update, tasks, installed, published>>

gatewayVars == <<integrations, NOTION_ACCESS_TOKEN, BYPASS_MODEL_ACCESS_CONTROL,
                 OPENAI_MODELS, cache, req, nreq>>

handlerVars == <<function_name, arguments, action_data, tool_result>>

NotCalled == [raised |-> FALSE, action |-> "not called", params |-> EmptyDict]

\* execute_notion_tool has not been called
NotExecuted == [pc |-> "idle"]

\* a completion request before generate_chat_completion is entered
IdleRequest ==
    [pc |-> "idle",
     user |-> "",                 \* user.id of the verified caller
     model |-> "",                \* form_data["model"]
     model_id |-> "",             \* the id looked up in OPENAI_MODELS
     passed_access |-> FALSE,     \* lines 602-640 did not raise
     catalog_seen |-> {},         \* ids of OPENAI_MODELS when the request was decided
     catalog_calls |-> {},        \* providers sent GET /models by this request
     payload |-> [kind |-> "none", model |-> "", messages |-> <<>>, stream |-> FALSE,
                  tools |-> {}],
     urlIdx |-> 0,
     notion_integration |-> "unbound", \* the local variable of that name
     calls |-> <<>>,              \* completion calls sent upstream
     tool_calls_kind |-> "none",  \* "absent", "null" or "list"
     tool_calls |-> <<>>,
     i |-> 0,                     \* tool calls the loop has gone through
     function_responses |-> <<>>,
     external |-> <<>>,           \* calls of the Notion API made for this request
     chunks |-> <<>>,             \* chunks received on the event stream
     forwarded |-> <<>>,          \* chunks yielded to the caller
     released |-> FALSE,          \* response and session closed
     status |-> 0,                \* HTTP status returned to the caller
     body |-> "none"]             \* "original", "final", "stream" or "error"

(***************************************************************************)
(* The provider registry, request.app.state.config, and the requests that  *)
(* read it.                                                                *)
(***************************************************************************)
\* an entry of OPENAI_API_CONFIGS; "" stands for no prefix_id
ApiConfigEntry(enable, model_ids, prefix_id) ==
    [enable |-> enable, model_ids |-> model_ids, prefix_id |-> prefix_id]

\* api_config.get("enable", True), .get("model_ids", []), .get("prefix_id", None)
\* of an empty api_config
EmptyApiConfig == ApiConfigEntry(TRUE, <<>>, "")

NoApiConfigs == [k \in {} |-> EmptyApiConfig]

Registry(enable, urls, keys, configs) ==
    [ENABLE_OPENAI_API |-> enable,
     OPENAI_API_BASE_URLS |-> urls,
     OPENAI_API_KEYS |-> keys,
     OPENAI_API_CONFIGS |-> configs]

ProviderA == OPENAI_API_BASE_URLS[1]

ProviderB == OPENAI_API_BASE_URLS[2]

\* the registry of a deployment started with both providers and their keys
StartRegistry == Registry(TRUE, OPENAI_API_BASE_URLS, OPENAI_API_KEYS, NoApiConfigs)

\* the registry of a deployment started with two base URLs and one key
StartRegistryOneKey ==
    Registry(TRUE, OPENAI_API_BASE_URLS, <<OPENAI_API_KEYS[1]>>, NoApiConfigs)

\* no update_config call is running
IdleUpdate == [pc |-> "idle", form |-> StartRegistry, n |-> 0]

\* a request before it calls get_all_models
IdleTask ==
    [pc |-> "idle",
     user |-> "",
     model_id |-> "",          \* the id looked up at line 643
     window |-> FALSE,         \* a cache entry was live when the call was made
     hit |-> FALSE,            \* the call was answered from the cache
     enabled |-> TRUE,         \* history: ENABLE_OPENAI_API when the call was made
     request_tasks |-> <<>>,   \* lines 300-351
     answered |-> {},          \* positions of line 353 whose response carries data
     models |-> <<>>,          \* models["data"] returned by get_all_models
     returned |-> FALSE,       \* get_all_models returned
     raised |-> "",            \* the exception get_all_models raised
     route_raised |-> "",      \* the exception lines 643-674 raised
     catalog |-> NoModels,     \* OPENAI_MODELS as read at line 643
     observed |-> StartRegistry, \* the registry as this request last read it
     whole |-> StartRegistry,  \* history: the value of installed at that read
     status |-> 0,
     call |-> <<>>]            \* the completion call sent upstream

TaskIds == {1, 2}

RegistryIdle ==
    /\ config = StartRegistry
    /\ update = IdleUpdate
    /\ tasks = [t \in TaskIds |-> IdleTask]
    /\ installed = StartRegistry
    /\ published = NoModels

\* no payload is being prepared
IdleForward == [pc |-> "idle"]

\* response["error"]: absent, an object with its keys and message, or a
\* string
ErrorValue(t, keys, message, s) ==
    [t |-> t, keys |-> keys, message |-> message, repr |-> <<"{">> \o message \o <<"}">>,
     s |-> s]

NoError == ErrorValue("absent", {}, <<>>, <<>>)

\* the local variable response: None (line 745), the JSON object of line
\* 876 or the text of line 879
Body(t, error, tool_calls, s) ==
    [t |-> t, has_error |-> error.t # "absent", error |-> error, tool_calls |-> tool_calls,
     s |-> s]

NoBody == Body("none", NoError, FALSE, <<>>)

\* no completion call has been sent
IdleRelay ==
    [pc |-> "idle",
     user |-> "",
     session |-> "none",           \* "none", "open" or "closed": line 748
     r |-> "none",                 \* the upstream response, likewise: line 752
     streaming |-> FALSE,          \* line 782
     payload |-> [kind |-> "none"],
     notion_integration |-> "unbound",
     upstream |-> [kind |-> "none", status |-> 0, body |-> NoBody],
     received |-> <<>>,            \* chunks read from r.content
     forwarded |-> <<>>,           \* bytes sent to the caller, chunk by chunk
     executed |-> <<>>,            \* calls of the Notion API made for chunks
     background |-> FALSE,         \* cleanup_response was run
     exit |-> "",                  \* how the handler or the relay ended
     returned |-> "none",          \* "original", "final" or "stream"
     status |-> 0,
     detail |-> <<>>,
     raised |-> ""]

\* no call of GET /models is being handled
IdleListing ==
    [pc |-> "idle",
     n |-> 0,                  \* calls of GET /models and of update_config so far
     user |-> "",
     url_idx |-> -1,           \* -1 stands for None
     fanned |-> StartRegistry, \* the registry as lines 300-351 read it
     request_tasks |-> <<>>,   \* lines 300-351
     sent |-> <<>>,            \* the GET {url}/models calls sent for this call
     responses |-> <<>>,       \* what line 353 returned
     models |-> 0,             \* the object the local variable models names
     data |-> <<>>,            \* models["data"] as returned to the caller
     status |-> 0,
     raised |-> ""]

\* the objects of the process that the registry or the cache name: the
\* value of each, by the order of its making; the object that is the key
\* list of the registry; the objects the cache of get_all_models holds
Heap(keys) == [objects |-> <<keys>>, OPENAI_API_KEYS |-> 1, cached |-> {}]

ListingIdle ==
    /\ listing = IdleListing
    /\ heap = Heap(config.OPENAI_API_KEYS)

PathIdle ==
    /\ forward = IdleForward
    /\ relay = IdleRelay
    /\ ListingIdle

GatewayInit ==
    /\ integrations \in [Users -> {"none", "t1a", "t2a"}]
    /\ \A u \in Users : integrations[u] \in TokensOf(u) \cup {"none"}
    /\ NOTION_ACCESS_TOKEN \in {"", EnvTokenValue}
    /\ BYPASS_MODEL_ACCESS_CONTROL \in BOOLEAN
    /\ OPENAI_MODELS = NoModels
    /\ cache = {}
    /\ req = IdleRequest
    /\ nreq = 0

Init ==
    /\ GatewayInit
    /\ RegistryIdle
    /\ PathIdle
    /\ function_name = "list_notion_databases"
    /\ arguments = StrVal("{}")
    /\ action_data = NotCalled
    /\ tool_result = NotExecuted

(***************************************************************************)
(* models/integrations.py: the integration store changes under the         *)
(* gateway.                                                                *)
(***************************************************************************)
\* lines 130-171: a new active integration replaces the active one
create_integration(u, access_token) ==
    /\ integrations[u] # access_token
    /\ integrations' = [integrations EXCEPT ![u] = access_token]
    /\ UNCHANGED <<NOTION_ACCESS_TOKEN, BYPASS_MODEL_ACCESS_CONTROL, OPENAI_MODELS, cache,
                   req, nreq, handlerVars, pathVars, registryVars>>

\* lines 203-223
deactivate_integration(u) ==
    /\ integrations[u] # "none"
    /\ integrations' = [integrations EXCEPT ![u] = "none"]
    /\ UNCHANGED <<NOTION_ACCESS_TOKEN, BYPASS_MODEL_ACCESS_CONTROL, OPENAI_MODELS, cache,
                   req, nreq, handlerVars, pathVars, registryVars>>

\* lines 120-127: the active integration of the caller, None when there is none
get_user_active_integration(u) == integrations[u]

(***************************************************************************)
(* routers/openai.py: generate_chat_completion up to the first upstream    *)
(* call.                                                                   *)
(***************************************************************************)
\* the content of a message: the text of a plain message, the decoded JSON
\* object of a tool message
Content(status, error, message) == [status |-> status, error |-> error, message |-> message]

Message(role, tool_call_id, name, content) ==
    [role |-> role, tool_call_id |-> tool_call_id, name |-> name, content |-> content]

\* the conversation a caller submits
Messages == <<Message("user", "", "", Content("", "", "what notion databases do i have"))>>

\* choice["message"] of the first response, which carries the tool calls
AssistantMessage == Message("assistant", "", "", Content("", "", "tool_calls"))

\* lines 602-603 left out: the bypass setting is not consulted
AccessDeniedDespiteBypass(u, m) ==
    IF m \in RegisteredModels
    THEN /\ Role(u) = "user"
         /\ ~(u = ModelInfo(m).user_id \/ has_access(u, ModelInfo(m)))
    ELSE Role(u) # "admin"

\* lines 602-640: the access check raises 403
AccessDenied(u, m) ==
    IF m \in RegisteredModels
    THEN /\ ~BYPASS_MODEL_ACCESS_CONTROL
         /\ Role(u) = "user"
         /\ ~(u = ModelInfo(m).user_id \/ has_access(u, ModelInfo(m)))
    ELSE /\ ~BYPASS_MODEL_ACCESS_CONTROL
         /\ Role(u) # "admin"

\* lines 614-617: a registered model with a base model is routed by the base id
ResolvedModelId(m) ==
    IF m \in RegisteredModels /\ ModelInfo(m).base_model_id # PyNone
    THEN ModelInfo(m).base_model_id
    ELSE m

\* lines 643-650 without the else branch: an id that is not in the map is
\* routed to provider 0
LookupOrFirstProvider(models, model_id) ==
    IF model_id \in DOMAIN models
    THEN [found |-> TRUE, urlIdx |-> models[model_id]]
    ELSE [found |-> TRUE, urlIdx |-> 0]

\* lines 643-650: the id is looked up in the map; an absent id raises 404
LookupModel(models, model_id) ==
    IF model_id \in DOMAIN models
    THEN [found |-> TRUE, urlIdx |-> models[model_id]]
    ELSE [found |-> FALSE, urlIdx |-> 0]

\* lines 752-778: the first completion call
FirstCall(payload, idx) ==
    [kind |-> "completion",
     url |-> OPENAI_API_BASE_URLS[idx + 1],
     path |-> "/chat/completions",
     key |-> OPENAI_API_KEYS[idx + 1],
     model |-> payload.model,
     messages |-> payload.messages,
     stream |-> payload.stream,
     tools |-> payload.tools]

\* lines 602-642: the request is entered; the access check is made before
\* the catalog is fetched
Start(u, m, stream) ==
    /\ req.pc \in {"idle", "done"}
    /\ nreq < MaxRequests
    /\ nreq' = nreq + 1
    /\ LET r == [IdleRequest EXCEPT
                    !.user = u,
                    !.model = m,
                    !.model_id = ResolvedModelId(m),
                    !.payload = [kind |-> "dict", model |-> ResolvedModelId(m),
                                 messages |-> Messages, stream |-> stream, tools |-> {}]]
       IN req' =
                    IF AccessDenied(u, m)
                    THEN [r EXCEPT !.pc = "done", !.status = 403, !.body = "error",
                                   !.catalog_seen = DOMAIN OPENAI_MODELS]
                    ELSE [r EXCEPT !.pc = "get_all_models", !.passed_access = TRUE]
    /\ UNCHANGED <<integrations, NOTION_ACCESS_TOKEN, BYPASS_MODEL_ACCESS_CONTROL,
                   OPENAI_MODELS, cache, handlerVars, pathVars, registryVars>>

\* lines 642-752: get_all_models returns (from its cache, or after a fan-out
\* in which the providers of `answered` answer), the model is looked up, the
\* tools of an active integration are added (dbok = FALSE: the integration
\* lookup raises), the payload is serialised and the first call is sent
GetAllModels(u, hit, answered, dbok) ==
    /\ req.pc = "get_all_models"
    /\ req.user = u
    /\ hit => (u \in cache /\ answered = {})
    /\ OPENAI_MODELS' = IF hit THEN OPENAI_MODELS ELSE MergedModels(answered)
    /\ cache' = IF hit THEN cache ELSE cache \cup {u}
    /\ LET r == [req EXCEPT
                    !.catalog_seen = DOMAIN OPENAI_MODELS',
                    !.catalog_calls = IF hit THEN {} ELSE Providers]
           found == LookupModel(OPENAI_MODELS', r.model_id)
           handle == IF dbok THEN get_user_active_integration(u) ELSE "unbound"
           payload == [r.payload EXCEPT
                         !.kind = "str",
                         !.tools = IF handle \in TokensOf(u) THEN NotionFunctions ELSE {}]
       IN req' =
                    IF ~found.found
                    THEN [r EXCEPT !.pc = "done", !.status = 404, !.body = "error"]
                    ELSE [r EXCEPT !.pc = "await_first",
                                   !.urlIdx = found.urlIdx,
                                   !.notion_integration = handle,
                                   !.payload = payload,
                                   !.calls = <<FirstCall(payload, found.urlIdx)>>]
    /\ UNCHANGED <<integrations, NOTION_ACCESS_TOKEN, BYPASS_MODEL_ACCESS_CONTROL, nreq,
                   handlerVars, pathVars, registryVars>>

\* @cached(ttl=3), line 389: the entry of a caller expires
CacheExpire(u) ==
    /\ u \in cache
    /\ cache' = cache \ {u}
    /\ UNCHANGED <<integrations, NOTION_ACCESS_TOKEN, BYPASS_MODEL_ACCESS_CONTROL,
                   OPENAI_MODELS, req, nreq, handlerVars, pathVars, registryVars>>

(***************************************************************************)
(* routers/openai.py: the tool calls of a buffered response, lines 883-1027*)
(***************************************************************************)
ToolCall(id, name, args) == [id |-> id, type |-> "function", name |-> name, arguments |-> args]

\* the tool_calls lists an upstream may put in the first choice
ToolCallLists ==
    { <<ToolCall("call_1", "list_notion_databases", StrVal("{}"))>>,
      <<ToolCall("call_1", "list_notion_databases", StrVal("")),
        ToolCall("call_2", "query_notion_database", StrVal("{"))>>,
      <<ToolCall("call_1", "search_notion", StrVal("{\"query\":\"q\"}")),
        ToolCall("call_2", "get_weather", StrVal("{}"))>>,
      <<ToolCall("call_1", "get_weather", StrVal("{}"))>> }

\* what the upstream answers to the first call
FirstResponses ==
    {[kind |-> k, tool_calls_kind |-> "none", tool_calls |-> <<>>] :
        k \in {"connect_error", "http_error", "sse"}}
    \cup {[kind |-> "json", tool_calls_kind |-> k, tool_calls |-> <<>>] :
        k \in {"absent", "null", "list"}}
    \cup {[kind |-> "json", tool_calls_kind |-> "list", tool_calls |-> l] : l \in ToolCallLists}

\* a tool call of a recognised integration function, lines 895-904
Recognized(tool_call) == tool_call.type = "function" /\ tool_call.name \in NotionFunctions

\* an entry of function_responses; cause records what the execution met
ToolResponse(tool_call, content, cause) ==
    [tool_call_id |-> tool_call.id, role |-> "tool", name |-> tool_call.name,
     content |-> content, cause |-> cause]

\* lines 948-955
NotConnectedResult(tool_call) ==
    <<ToolResponse(tool_call, Content("", "Notion integration not connected", ""),
                   "not_connected")>>

\* lines 956-966 left out: an exception in the body leaves the tool call
\* without a result
NoResult(tool_call) == <<>>

\* lines 956-966: an exception in the body becomes an error result
FailedResult(tool_call) ==
    <<ToolResponse(tool_call, Content("", "Failed to execute Notion function", ""),
                   "exception")>>

\* lines 894-966, one iteration of the loop for caller u.  dbok = FALSE:
\* the integration lookup raises; ext: what the Notion API does.  The
\* result holds the tool results and the Notion calls the iteration adds and
\* the value it leaves in notion_integration.
ExecuteToolCall(u, tool_call, current, dbok, ext) ==
    LET handle == get_user_active_integration(u)
        data == handle_notion_function_execution(tool_call.name, tool_call.arguments)
        result == execute_notion_tool(data, handle, NOTION_ACCESS_TOKEN, ext)
        formatted == format_notion_api_result_for_llm(result, tool_call.name)
        made == [tool_call_id |-> tool_call.id, action |-> data.action,
                 token |-> result.token, handle |-> handle,
                 stored |-> integrations[u], path |-> "buffered"]
    IN  IF ~Recognized(tool_call)
        THEN [responses |-> <<>>, external |-> <<>>, notion_integration |-> current]
        ELSE IF ~dbok
        THEN [responses |-> FailedResult(tool_call), external |-> <<>>,
              notion_integration |-> current]
        ELSE IF handle = "none"
        THEN [responses |-> NotConnectedResult(tool_call), external |-> <<>>,
              notion_integration |-> handle]
        ELSE IF data.raised
        THEN [responses |-> FailedResult(tool_call), external |-> <<>>,
              notion_integration |-> handle]
        ELSE [responses |-> <<ToolResponse(tool_call,
                                Content(formatted.status, "",
                                        DictGet(formatted, "message", "")),
                                IF result.error
                                THEN IF result.called THEN ext ELSE "missing_parameter"
                                ELSE "ok")>>,
              external |-> IF result.called THEN <<made>> ELSE <<>>,
              notion_integration |-> handle]

\* lines 975-981
ToolMessages(function_responses) ==
    [k \in 1..Len(function_responses) |->
        Message("tool", function_responses[k].tool_call_id, function_responses[k].name,
                function_responses[k].content)]

\* line 991: after the loop over payload.items() the variable key holds the
\* last key of the payload
LastPayloadKey(payload) == IF payload.tools # {} THEN "tools" ELSE "stream"

\* lines 971-1020, for a payload that is a dict
ContinuationCall(r) ==
    [kind |-> "continuation",
     url |-> OPENAI_API_BASE_URLS[r.urlIdx + 1],
     path |-> "",
     key |-> LastPayloadKey(r.payload),
     model |-> r.payload.model,
     messages |-> r.payload.messages \o <<AssistantMessage>>
                    \o ToolMessages(r.function_responses),
     stream |-> r.payload.stream,
     tools |-> r.payload.tools]

\* line 971: payload.get on the payload; the payload was replaced by its
\* JSON text at line 740, and a str has no get: AttributeError
PayloadGetRaises(payload) == payload.kind # "dict"

\* lines 968-1027, after the loop.  With tool results the continuation is
\* built: when that raises, or the second response is an error status, the
\* handler of line 1025 returns the original response.
Finish(r, second) ==
    LET done == [r EXCEPT !.pc = "done", !.status = 200, !.released = TRUE]
    IN  IF r.function_responses = <<>>
        THEN [done EXCEPT !.body = "original"]
        ELSE IF PayloadGetRaises(r.payload)
        THEN [done EXCEPT !.body = "original"]
        ELSE [done EXCEPT !.calls = Append(r.calls, ContinuationCall(r)),
                          !.body = IF second = "ok" THEN "final" ELSE "original"]

\* lines 752-891: the answer to the first call arrives
FirstResponse(u, resp) ==
    /\ req.pc = "await_first"
    /\ req.user = u
    /\ LET r == req
       IN req' =
            CASE resp.kind = "connect_error" ->
                    [r EXCEPT !.pc = "done", !.status = 500, !.body = "error",
                              !.released = TRUE]
              [] resp.kind = "http_error" ->
                    [r EXCEPT !.pc = "done", !.status = 502, !.body = "error",
                              !.released = TRUE]
              [] resp.kind = "sse" ->
                    [r EXCEPT !.pc = "streaming", !.status = 200, !.body = "stream"]
              [] resp.kind = "json" /\ resp.tool_calls_kind = "list"
                                   /\ resp.tool_calls # <<>> ->
                    [r EXCEPT !.pc = "tool_loop", !.tool_calls_kind = "list",
                              !.tool_calls = resp.tool_calls]
              [] OTHER ->
                    [r EXCEPT !.pc = "done", !.status = 200, !.body = "original",
                              !.released = TRUE,
                              !.tool_calls_kind = resp.tool_calls_kind]
    /\ UNCHANGED <<integrations, NOTION_ACCESS_TOKEN, BYPASS_MODEL_ACCESS_CONTROL,
                   OPENAI_MODELS, cache, nreq, handlerVars, pathVars, registryVars>>

\* lines 894-1027: the next tool call is gone through; after the last one
\* the request is finished
ToolStep(u, dbok, ext, second) ==
    /\ req.pc = "tool_loop"
    /\ req.user = u
    /\ LET r == req
           step == ExecuteToolCall(u, r.tool_calls[r.i + 1], r.notion_integration, dbok, ext)
           next == [r EXCEPT !.i = @ + 1,
                             !.function_responses = @ \o step.responses,
                             !.external = @ \o step.external,
                             !.notion_integration = step.notion_integration]
       IN /\ (second # "ok") => /\ next.i = Len(r.tool_calls)
                                /\ next.function_responses # <<>>
                                /\ ~PayloadGetRaises(r.payload)
          /\ req' = IF next.i = Len(r.tool_calls) THEN Finish(next, second) ELSE next
    /\ UNCHANGED <<integrations, NOTION_ACCESS_TOKEN, BYPASS_MODEL_ACCESS_CONTROL,
                   OPENAI_MODELS, cache, nreq, handlerVars, pathVars, registryVars>>

(***************************************************************************)
(* routers/openai.py: the streaming path, lines 780-873                    *)
(***************************************************************************)
\* config.py setting read at line 791
ENABLE_INTEGRATIONS == TRUE

\* the chunks an upstream may send: plain text; an SSE-framed event whose
\* text holds the function_call marker; a bare JSON line whose choice
\* carries message.function_call
Chunks ==
    {[kind |-> "text", name |-> "", arguments |-> StrVal("")],
     [kind |-> "sse_function_call", name |-> "list_notion_databases",
      arguments |-> StrVal("{}")],
     [kind |-> "json_function_call", name |-> "list_notion_databases",
      arguments |-> StrVal("{}")]}

\* line 798
StreamRecognized(name) == name \in NotionFunctions

\* process_response_function_calls, lines 785-852: the Notion calls made
\* for one chunk.  The token is read from the notion_integration of the
\* enclosing request (lines 692-694); reading it from None or from the
\* unbound variable raises, as does the append to function_responses
\* after the call, and line 850 swallows both.
process_response_function_calls(u, r, chunk, ext) ==
    LET data == handle_notion_function_execution(chunk.name, chunk.arguments)
        result == execute_notion_tool(data, r.notion_integration, NOTION_ACCESS_TOKEN, ext)
    IN  IF /\ chunk.kind = "json_function_call"
           /\ ENABLE_INTEGRATIONS
           /\ StreamRecognized(chunk.name)
           /\ r.notion_integration \notin {"unbound", "none"}
           /\ ~data.raised
           /\ result.called
        THEN <<[tool_call_id |-> "", action |-> data.action, token |-> result.token,
                handle |-> r.notion_integration, stored |-> integrations[u],
                path |-> "streaming"]>>
        ELSE <<>>

\* iterate_chunks, lines 854-864: a chunk arrives and is yielded
StreamChunk(u, chunk, ext) ==
    /\ req.pc = "streaming"
    /\ req.user = u
    /\ Len(req.chunks) < MaxChunks
    /\ req' = [req EXCEPT !.chunks = Append(@, chunk),
                          !.forwarded = Append(@, chunk),
                          !.external = @ \o process_response_function_calls(u, req, chunk, ext)]
    /\ UNCHANGED <<integrations, NOTION_ACCESS_TOKEN, BYPASS_MODEL_ACCESS_CONTROL,
                   OPENAI_MODELS, cache, nreq, handlerVars, pathVars, registryVars>>

\* lines 866-873 and cleanup_response, lines 97-104: the stream ends and the
\* background task closes the response and the session
StreamEnd(u) ==
    /\ req.pc = "streaming"
    /\ req.user = u
    /\ req' = [req EXCEPT !.pc = "done", !.released = TRUE]
    /\ UNCHANGED <<integrations, NOTION_ACCESS_TOKEN, BYPASS_MODEL_ACCESS_CONTROL,
                   OPENAI_MODELS, cache, nreq, handlerVars, pathVars, registryVars>>

(***************************************************************************)
(* The gateway.                                                            *)
(***************************************************************************)
ExternalOutcomes == {"ok", "err", "exc"}

Next ==
    \/ \E u \in Users, m \in ModelIds, stream \in StreamFlags : Start(u, m, stream)
    \/ \E u \in Users, hit \in BOOLEAN, answered \in SUBSET Providers, dbok \in BOOLEAN :
          GetAllModels(u, hit, answered, dbok)
    \/ \E u \in Users : CacheExpire(u)
    \/ \E u \in Users, resp \in FirstResponses : FirstResponse(u, resp)
    \/ \E u \in Users, dbok \in BOOLEAN, ext \in ExternalOutcomes, second \in {"ok", "error"} :
          ToolStep(u, dbok, ext, second)
    \/ \E u \in Users, chunk \in Chunks, ext \in ExternalOutcomes : StreamChunk(u, chunk, ext)
    \/ \E u \in Users : StreamEnd(u)
    \/ \E u \in Users : \E t \in TokensOf(u) : create_integration(u, t)
    \/ \E u \in Users : deactivate_integration(u)

Spec == Init /\ [][Next]_vars

(***************************************************************************)
(* handle_notion_function_execution on its own: every recognised function  *)
(* name with every argument value of the model.                            *)
(***************************************************************************)
HandlerInit ==
    /\ integrations = [u \in Users |-> "none"]
    /\ NOTION_ACCESS_TOKEN = ""
    /\ BYPASS_MODEL_ACCESS_CONTROL = FALSE
    /\ OPENAI_MODELS = NoModels
    /\ cache = {}
    /\ req = IdleRequest
    /\ nreq = 0
    /\ function_name \in NotionFunctions
    /\ arguments \in RawArguments
    /\ action_data = NotCalled
    /\ tool_result = NotExecuted
    /\ RegistryIdle
    /\ PathIdle

CallHandler ==
    /\ action_data = NotCalled
    /\ action_data' = handle_notion_function_execution(function_name, arguments)
    /\ UNCHANGED <<function_name, arguments, tool_result, gatewayVars, registryVars,
                   pathVars>>

\* openai.py lines 925-945: the action is executed and its result is
\* formatted into the content of the Tool Result
ExecuteAction(ext, k) ==
    /\ action_data # NotCalled
    /\ ~action_data.raised
    /\ tool_result = NotExecuted
    /\ LET result == ReturnedResult(action_data, ext, Answer(k))
       IN  tool_result' =
               [pc |-> "done", ext |-> ext, answer |-> Answer(k),
                called |-> ReachesNotion(action_data),
                result |-> result,
                content |-> format_notion_api_result_for_llm(result, function_name)]
    /\ UNCHANGED <<function_name, arguments, action_data, gatewayVars, registryVars,
                   pathVars>>

HandlerNext ==
    \/ CallHandler
    \/ \E ext \in ExternalOutcomes, k \in 0..MaxDatabases : ExecuteAction(ext, k)

HandlerSpec == HandlerInit /\ [][HandlerNext]_vars

(***************************************************************************)
(* routers/openai.py: update_config, get_all_models_responses,             *)
(* get_all_models and the routing of lines 643-674, with a registry that   *)
(* administrators update while requests are in flight.                     *)
(***************************************************************************)
\* a per-provider setting that gives provider 1 the prefix "b"
PrefixB == [k \in {"1"} |-> ApiConfigEntry(TRUE, <<>>, "b")]

\* the forms an administrator may post to /config/update: one base URL
\* with a key too many and a setting for a removed index; a key missing;
\* the two providers in the other order; a prefix for provider 1; the API
\* switched off
ConfigForms ==
    { Registry(TRUE, <<ProviderA>>, <<"key-a", "key-b">>, PrefixB),
      Registry(TRUE, <<ProviderA, ProviderB>>, <<"key-a">>, NoApiConfigs),
      Registry(TRUE, <<ProviderB, ProviderA>>, <<"key-b", "key-a">>, NoApiConfigs),
      Registry(TRUE, <<ProviderA, ProviderB>>, <<"key-a", "key-b">>, PrefixB),
      Registry(FALSE, <<ProviderA, ProviderB>>, <<"key-a", "key-b">>, NoApiConfigs) }

\* lines 284 and 394 left out: the API is taken to be switched on
ApiTakenEnabled(cfg) == TRUE

\* lines 284 and 394: request.app.state.config.ENABLE_OPENAI_API
ApiEnabled(cfg) == cfg.ENABLE_OPENAI_API

\* lines 162-177 and 291-298 left out: the key list stays as it is
KeepKeys(keys, num_urls) == keys

\* lines 162-177 and 291-298: extra keys are cut, missing keys are added as ""
FixKeys(keys, num_urls) ==
    IF Len(keys) > num_urls
    THEN SubSeq(keys, 1, num_urls)
    ELSE keys \o [k \in 1..(num_urls - Len(keys)) |-> ""]

\* lines 181-187: only the settings keyed by an index of the base-URL list stay
FilterConfigs(configs, urls) ==
    [k \in {c \in DOMAIN configs : c \in {ToString(i - 1) : i \in 1..Len(urls)}} |->
        configs[k]]

\* lines 313-318, 358-363, 653-658: the settings of provider idx, by index,
\* else by URL (legacy), else empty; idx is within the base-URL list
ApiConfig(cfg, idx) ==
    LET url == cfg.OPENAI_API_BASE_URLS[idx + 1]
    IN  IF ToString(idx) \in DOMAIN cfg.OPENAI_API_CONFIGS
        THEN cfg.OPENAI_API_CONFIGS[ToString(idx)]
        ELSE IF url \in DOMAIN cfg.OPENAI_API_CONFIGS
             THEN cfg.OPENAI_API_CONFIGS[url]
             ELSE EmptyApiConfig

\* the ids a provider lists at GET {url}/models, in the order it lists them
ProviderListing(url) ==
    IF url = ProviderA THEN <<"gpt-4", "whisper-1">> ELSE <<"gpt-4", "llama">>

\* what a provider does with GET {url}/models: "error" is a connection
\* error, a timeout or a body that is not JSON; "no_data" an object
\* without data, as {"error": ...}; "scalar" a JSON body that is a number
\* or true; "listing" {"data": [...]}
Outcomes == {"error", "no_data", "scalar", "listing"}

NoneResponse == [kind |-> "None", has_data |-> FALSE, data |-> <<>>]

DictResponse(has_data, data) == [kind |-> "dict", has_data |-> has_data, data |-> data]

\* lines 70-94: the decoded body, None when the call or the decoding raises
send_get_request(url, outcome) ==
    CASE outcome = "error" -> NoneResponse
      [] outcome = "no_data" -> DictResponse(FALSE, <<>>)
      [] outcome = "scalar" -> [kind |-> "scalar", has_data |-> FALSE, data |-> <<>>]
      [] OTHER -> DictResponse(TRUE, ProviderListing(url))

\* lines 301-351 with the test of line 323 left out: a provider that is not
\* enabled is treated as an enabled one
RequestTaskOfAny(cfg, idx) ==
    LET api_config == ApiConfig(cfg, idx)
        task(kind) == [kind |-> kind, idx |-> idx,
                       url |-> cfg.OPENAI_API_BASE_URLS[idx + 1],
                       key |-> IF idx + 1 <= Len(cfg.OPENAI_API_KEYS)
                               THEN cfg.OPENAI_API_KEYS[idx + 1]
                               ELSE "IndexError",
                       model_ids |-> api_config.model_ids]
    IN  IF api_config.model_ids # <<>> THEN task("model_list")
        ELSE task("get")

\* lines 301-351: the task made for provider idx; the url and the key of a
\* GET are read when the task is made
RequestTask(cfg, idx) ==
    LET api_config == ApiConfig(cfg, idx)
        task(kind) == [kind |-> kind, idx |-> idx,
                       url |-> cfg.OPENAI_API_BASE_URLS[idx + 1],
                       key |-> IF idx + 1 <= Len(cfg.OPENAI_API_KEYS)
                               THEN cfg.OPENAI_API_KEYS[idx + 1]
                               ELSE "IndexError",
                       model_ids |-> api_config.model_ids]
    IN  IF ~api_config.enable THEN task("disabled")
        ELSE IF api_config.model_ids # <<>> THEN task("model_list")
        ELSE task("get")

RequestTasks(cfg) ==
    [i \in 1..Len(cfg.OPENAI_API_BASE_URLS) |-> RequestTask(cfg, i - 1)]

\* line 353: what asyncio.gather returns, in the order of the tasks
Responses(request_tasks, outcomes) ==
    [i \in 1..Len(request_tasks) |->
        CASE request_tasks[i].kind = "get" ->
                send_get_request(request_tasks[i].url, outcomes[i])
          [] request_tasks[i].kind = "model_list" ->
                DictResponse(TRUE, request_tasks[i].model_ids)
          [] OTHER -> NoneResponse]

\* Python truth value of a response
Truthy(response) == response.kind \in {"dict", "scalar"}

MinOf(S) == CHOOSE x \in S : \A y \in S : x <= y

\* the exception of the first position that has one
FirstError(errors) ==
    IF \A i \in DOMAIN errors : errors[i] = ""
    THEN ""
    ELSE errors[MinOf({i \in DOMAIN errors : errors[i] # ""})]

\* lines 355-371: what the prefix pass raises at position i; the base-URL
\* list is indexed as it is after the gather
PrefixError(cfg, responses, i) ==
    IF ~Truthy(responses[i]) THEN ""
    ELSE IF i > Len(cfg.OPENAI_API_BASE_URLS) THEN "IndexError"
    ELSE IF ApiConfig(cfg, i - 1).prefix_id # "" /\ responses[i].kind = "scalar"
         THEN "AttributeError"
    ELSE ""

\* line 371
Prefixed(prefix_id, id) == prefix_id \o "." \o id

\* lines 365-371
PrefixedResponse(cfg, response, idx) ==
    IF /\ Truthy(response)
       /\ idx < Len(cfg.OPENAI_API_BASE_URLS)
       /\ response.kind = "dict"
    THEN LET prefix_id == ApiConfig(cfg, idx).prefix_id
         IN  IF prefix_id # ""
             THEN [response EXCEPT !.data = [k \in DOMAIN @ |-> Prefixed(prefix_id, @[k])]]
             ELSE response
    ELSE response

\* lines 399-404: `"data" in response` raises TypeError on a number
extract_data(response) ==
    CASE response.kind = "scalar" -> [raised |-> "TypeError", none |-> TRUE, models |-> <<>>]
      [] response.kind = "dict" /\ response.has_data ->
            [raised |-> "", none |-> FALSE, models |-> response.data]
      [] OTHER -> [raised |-> "", none |-> TRUE, models |-> <<>>]

\* line 422: "api.openai.com" in the base URL
FirstParty(url) == url = ProviderA

\* lines 424-434: the id holds the name of a family that is left out
Denylisted(id) == id \in {"whisper-1", Prefixed("b", "whisper-1")}

\* lines 410-436: the models of position i that are kept, with their urlIdx
KeptModels(cfg, models, i) ==
    LET keep(id) == ~(FirstParty(cfg.OPENAI_API_BASE_URLS[i]) /\ Denylisted(id))
        kept == SelectSeq(models, keep)
    IN  [k \in 1..Len(kept) |-> [id |-> kept[k], urlIdx |-> i - 1]]

RECURSIVE MergeFrom(_, _, _)
MergeFrom(cfg, model_lists, i) ==
    IF i > Len(model_lists) THEN <<>>
    ELSE (IF model_lists[i].none \/ model_lists[i].models = <<>>
          THEN <<>>
          ELSE KeptModels(cfg, model_lists[i].models, i))
         \o MergeFrom(cfg, model_lists, i + 1)

\* lines 406-438
merge_models_lists(cfg, model_lists) == MergeFrom(cfg, model_lists, 1)

\* line 443: the dict comprehension keeps, for an id that occurs more than
\* once in the list, the last entry
ModelsById(models) ==
    [id \in {models[k].id : k \in 1..Len(models)} |->
        models[MaxOf({k \in 1..Len(models) : models[k].id = id})].urlIdx]

\* lines 355-443 for the responses of a gather: the exception raised, or
\* the merged list
get_all_models(cfg, responses) ==
    LET positions == 1..Len(responses)
        prefix_error == FirstError([i \in positions |-> PrefixError(cfg, responses, i)])
        prefixed == [i \in positions |-> PrefixedResponse(cfg, responses[i], i - 1)]
        model_lists == [i \in positions |-> extract_data(prefixed[i])]
        extract_error == FirstError([i \in positions |-> model_lists[i].raised])
    IN  IF prefix_error # "" THEN [raised |-> prefix_error, models |-> <<>>]
        ELSE IF extract_error # "" THEN [raised |-> extract_error, models |-> <<>>]
        ELSE [raised |-> "", models |-> merge_models_lists(cfg, model_lists)]

\* line 443 as an update in place: the entries of the old map stay
MergeIntoCatalog(current, merged) ==
    [id \in DOMAIN current \cup DOMAIN merged |->
        IF id \in DOMAIN merged THEN merged[id] ELSE current[id]]

\* line 443: the map is replaced by one assignment
PublishCatalog(current, merged) == merged

\* the raw ids the providers of the model list
RawIds == {"gpt-4", "llama", "whisper-1"}

\* line 662: payload["model"].replace(f"{prefix_id}.", ""), for the ids of
\* the model, which hold the prefix at their start or not at all
StripPrefix(model, prefix_id) ==
    IF \E raw \in RawIds : model = Prefixed(prefix_id, raw)
    THEN CHOOSE raw \in RawIds : model = Prefixed(prefix_id, raw)
    ELSE model

\* lines 643-674 and 752 with line 674 reading the first key of the list
RouteWithFirstKey(cfg, catalog, model_id) ==
    IF model_id \notin DOMAIN catalog
    THEN [status |-> 404, raised |-> "", call |-> <<>>]
    ELSE LET idx == catalog[model_id]
         IN  IF idx + 1 > Len(cfg.OPENAI_API_BASE_URLS) \/ idx + 1 > Len(cfg.OPENAI_API_KEYS)
             THEN [status |-> 500, raised |-> "IndexError", call |-> <<>>]
             ELSE LET prefix_id == ApiConfig(cfg, idx).prefix_id
                  IN  [status |-> 0, raised |-> "",
                       call |-> <<[urlIdx |-> idx,
                                   url |-> cfg.OPENAI_API_BASE_URLS[idx + 1],
                                   key |-> cfg.OPENAI_API_KEYS[1],
                                   model |-> IF prefix_id # ""
                                             THEN StripPrefix(model_id, prefix_id)
                                             ELSE model_id]>>]

\* lines 643-674 and 752: the lookup of the model and the completion call
RouteRequest(cfg, catalog, model_id) ==
    IF model_id \notin DOMAIN catalog
    THEN [status |-> 404, raised |-> "", call |-> <<>>]
    ELSE LET idx == catalog[model_id]
         IN  IF idx + 1 > Len(cfg.OPENAI_API_BASE_URLS) \/ idx + 1 > Len(cfg.OPENAI_API_KEYS)
             THEN [status |-> 500, raised |-> "IndexError", call |-> <<>>]
             ELSE LET prefix_id == ApiConfig(cfg, idx).prefix_id
                  IN  [status |-> 0, raised |-> "",
                       call |-> <<[urlIdx |-> idx,
                                   url |-> cfg.OPENAI_API_BASE_URLS[idx + 1],
                                   key |-> cfg.OPENAI_API_KEYS[idx + 1],
                                   model |-> IF prefix_id # ""
                                             THEN StripPrefix(model_id, prefix_id)
                                             ELSE model_id]>>]

\* the request after lines 643-752
Routed(r, cfg, catalog) ==
    LET route == RouteRequest(cfg, catalog, r.model_id)
    IN  [r EXCEPT !.pc = "done",
                  !.returned = TRUE,
                  !.catalog = catalog,
                  !.observed = cfg,
                  !.whole = installed,
                  !.status = route.status,
                  !.route_raised = route.raised,
                  !.call = route.call]

\* the request t is now as r says; the answer of a request that ended
\* before has been sent and its record is dropped
Settle(t, r) ==
    [k \in TaskIds |->
        IF k = t THEN r
        ELSE IF tasks[k].pc = "done" THEN IdleTask
        ELSE tasks[k]]

\* an await inside update_config: a request may run between two statements
\* of an update_config call
EventLoopAlwaysFree(u) == TRUE

\* update_config holds no await: a request runs only when no update_config
\* call is between its first statement and its last
EventLoopFree(u) == u.pc = "idle"

\* the model ids a caller may ask for while the registry changes
RequestedIds == {"llama", "custom"}

\* lines 602-642 and get_all_models up to the gather of line 353: a request
\* that passed the access check calls get_all_models.  A call answered from
\* the cache, or made with the API disabled, returns at once and the request
\* is routed; else the key list is fixed and the tasks are made.
CallGetAllModels(t, u, m, hit) ==
    /\ EventLoopFree(update)
    /\ tasks[t].pc \in {"idle", "done"}
    /\ \A k \in TaskIds : k < t => tasks[k].pc = "gather"
    /\ nreq + update.n < MaxOperations
    /\ ~AccessDenied(u, m)
    /\ hit => u \in cache
    /\ nreq' = nreq + 1
    /\ LET fixed == [config EXCEPT
                        !.OPENAI_API_KEYS = FixKeys(@, Len(config.OPENAI_API_BASE_URLS))]
           r == [IdleTask EXCEPT !.user = u,
                                 !.model_id = ResolvedModelId(m),
                                 !.window = (cache # {}),
                                 !.hit = hit,
                                 !.enabled = config.ENABLE_OPENAI_API,
                                 !.observed = config,
                                 !.whole = installed]
       IN  IF hit \/ ~ApiEnabled(config)
           THEN /\ tasks' = Settle(t, Routed(r, config, OPENAI_MODELS))
                /\ cache' = cache \cup {u}
                /\ UNCHANGED <<config, installed>>
           ELSE /\ tasks' = Settle(t, [r EXCEPT !.pc = "gather",
                                                 !.request_tasks = RequestTasks(fixed)])
                /\ config' = fixed
                /\ installed' = IF fixed # config THEN fixed ELSE installed
                /\ UNCHANGED cache
    /\ UNCHANGED <<integrations, NOTION_ACCESS_TOKEN, BYPASS_MODEL_ACCESS_CONTROL,
                   OPENAI_MODELS, req, handlerVars, pathVars, update, published>>

\* lines 353-374 and 399-444, then 643-752: the gather returns, the
\* responses are prefixed and merged with the registry as it is now, the map
\* is published and the request is routed
Gather(t, outcomes) ==
    /\ EventLoopFree(update)
    /\ tasks[t].pc = "gather"
    /\ LET responses == Responses(tasks[t].request_tasks, outcomes)
           r == [tasks[t] EXCEPT
                    !.answered = {i \in 1..Len(responses) : responses[i].has_data},
                    !.observed = config,
                    !.whole = installed]
           result == get_all_models(config, responses)
           merged == ModelsById(result.models)
           catalog == PublishCatalog(OPENAI_MODELS, merged)
       IN  IF result.raised # ""
           THEN /\ tasks' = Settle(t, [r EXCEPT !.pc = "done", !.raised = result.raised,
                                                 !.status = 500])
                /\ UNCHANGED <<OPENAI_MODELS, published, cache>>
           ELSE /\ tasks' = Settle(t, Routed([r EXCEPT !.models = result.models],
                                              config, catalog))
                /\ OPENAI_MODELS' = catalog
                /\ published' = merged
                /\ cache' = cache \cup {r.user}
    /\ UNCHANGED <<integrations, NOTION_ACCESS_TOKEN, BYPASS_MODEL_ACCESS_CONTROL,
                   req, nreq, handlerVars, pathVars, config, update, installed>>

\* update_config, lines 157-158
UpdateUrls(form) ==
    /\ update.pc = "idle"
    /\ nreq + update.n < MaxOperations
    /\ update' = [update EXCEPT !.pc = "keys", !.form = form]
    /\ config' = [config EXCEPT !.ENABLE_OPENAI_API = form.ENABLE_OPENAI_API,
                                !.OPENAI_API_BASE_URLS = form.OPENAI_API_BASE_URLS]
    /\ UNCHANGED <<gatewayVars, handlerVars, pathVars, tasks, installed, published>>

\* update_config, lines 159-177
UpdateKeys ==
    /\ update.pc = "keys"
    /\ update' = [update EXCEPT !.pc = "configs"]
    /\ config' = [config EXCEPT
                    !.OPENAI_API_KEYS = FixKeys(update.form.OPENAI_API_KEYS,
                                                Len(config.OPENAI_API_BASE_URLS))]
    /\ UNCHANGED <<gatewayVars, handlerVars, pathVars, tasks, installed, published>>

\* update_config, lines 179-194
UpdateConfigs ==
    /\ update.pc = "configs"
    /\ update' = [update EXCEPT !.pc = "idle", !.n = @ + 1]
    /\ config' = [config EXCEPT
                    !.OPENAI_API_CONFIGS = FilterConfigs(update.form.OPENAI_API_CONFIGS,
                                                         config.OPENAI_API_BASE_URLS)]
    /\ installed' = config'
    /\ UNCHANGED <<gatewayVars, handlerVars, pathVars, tasks, published>>

CatalogInit ==
    /\ integrations = [u \in Users |-> "none"]
    /\ NOTION_ACCESS_TOKEN = ""
    /\ BYPASS_MODEL_ACCESS_CONTROL = FALSE
    /\ OPENAI_MODELS = NoModels
    /\ cache = {}
    /\ req = IdleRequest
    /\ nreq = 0
    /\ function_name = "list_notion_databases"
    /\ arguments = StrVal("{}")
    /\ action_data = NotCalled
    /\ tool_result = NotExecuted
    /\ config = StartRegistryOneKey
    /\ update = IdleUpdate
    /\ tasks = [t \in TaskIds |-> IdleTask]
    /\ installed = config
    /\ published = NoModels
    /\ PathIdle

CatalogNext ==
    \/ \E t \in TaskIds, u \in Users, m \in RequestedIds, hit \in BOOLEAN :
          CallGetAllModels(t, u, m, hit)
    \/ \E t \in TaskIds, outcomes \in [DOMAIN OPENAI_API_BASE_URLS -> Outcomes] :
          Gather(t, outcomes)
    \/ \E form \in ConfigForms : UpdateUrls(form)
    \/ UpdateKeys
    \/ UpdateConfigs
    \/ \E u \in Users : CacheExpire(u)

CatalogSpec == CatalogInit /\ [][CatalogNext]_vars

(***************************************************************************)
(* routers/openai.py: the payload on its way upstream, lines 652-740, and  *)
(* the prefix put before the ids of a provider, lines 365-371.  A text is  *)
(* a sequence of pieces of text, so that lower, startswith, `in` and       *)
(* replace are computed on it.                                             *)
(***************************************************************************)
\* str.lower(), piece by piece
lower(s) ==
    [i \in 1..Len(s) |->
        CASE s[i] = "O1" -> "o1"
          [] s[i] = "Mini" -> "mini"
          [] s[i] = "LIST" -> "list"
          [] s[i] = "Notion" -> "notion"
          [] s[i] = "Database" -> "database"
          [] OTHER -> s[i]]

\* str.startswith(prefix)
startswith(s, prefix) == Len(prefix) <= Len(s) /\ SubSeq(s, 1, Len(prefix)) = prefix

\* `sub in s` for two texts
contains(s, sub) == \E i \in 0..(Len(s) - Len(sub)) : SubSeq(s, i + 1, i + Len(sub)) = sub

RECURSIVE replace(_, _)
\* str.replace(old, ""): every occurrence of old is taken out, left to right
replace(s, old) ==
    IF s = <<>>
    THEN <<>>
    ELSE IF startswith(s, old)
         THEN replace(SubSeq(s, Len(old) + 1, Len(s)), old)
         ELSE <<Head(s)>> \o replace(Tail(s), old)

\* words with a blank between them
Text(words) ==
    [i \in 1..(2 * Len(words) - 1) |-> IF i % 2 = 1 THEN words[(i + 1) \div 2] ELSE " "]

\* line 371: f"{prefix_id}.{model['id']}"
PrefixModelId(prefix_id, id) == prefix_id \o <<".">> \o id

\* lines 660-662
ReplacePrefix(model, prefix_id) ==
    IF prefix_id # <<>> THEN replace(model, prefix_id \o <<".">>) ELSE model

\* line 677
is_o1_o3(model) ==
    \/ startswith(lower(model), <<"o1">>)
    \/ startswith(lower(model), <<"o3", "-">>)

\* lines 119-124 with the first branch left out
DeveloperRoleFor(model_lower) == "developer"

\* lines 119-124: the role that replaces "system"
SystemRoleFor(model_lower) ==
    IF \/ startswith(model_lower, <<"o1", "-", "mini">>)
       \/ startswith(model_lower, <<"o1", "-", "preview">>)
    THEN "user"
    ELSE "developer"

\* lines 107-126; a key that is not in payload.keys holds 0
openai_o1_o3_handler(payload) ==
    LET renamed ==
            IF "max_tokens" \in payload.keys
            THEN [payload EXCEPT
                    !.keys = (@ \ {"max_tokens"}) \cup {"max_completion_tokens"},
                    !.max_completion_tokens = payload.max_tokens,
                    !.max_tokens = 0]
            ELSE payload
    IN  IF renamed.messages[1].role = "system"
        THEN [renamed EXCEPT !.messages[1].role = SystemRoleFor(lower(payload.model))]
        ELSE renamed

\* lines 686-687 left out
KeepBothLimits(payload) == payload

\* lines 686-687
DropMaxTokens(payload) ==
    IF "max_tokens" \in payload.keys /\ "max_completion_tokens" \in payload.keys
    THEN [payload EXCEPT !.keys = @ \ {"max_tokens"}, !.max_tokens = 0]
    ELSE payload

\* lines 676-687
NormalizeLimits(payload, url) ==
    DropMaxTokens(IF is_o1_o3(payload.model)
                  THEN openai_o1_o3_handler(payload)
                  ELSE IF ~FirstParty(url) /\ "max_completion_tokens" \in payload.keys
                       THEN [payload EXCEPT
                               !.keys = (@ \ {"max_completion_tokens"}) \cup {"max_tokens"},
                               !.max_tokens = payload.max_completion_tokens,
                               !.max_completion_tokens = 0]
                       ELSE payload)

\* get_notion_function_tools, notion.py lines 11-186: the names of the tool
\* definitions, in their order
NotionTools == <<"search_notion", "list_notion_databases", "query_notion_database",
                 "create_notion_page", "update_notion_page">>

\* lines 709-713
ListingPhrases ==
    {Text(<<"what", "notion", "database">>) \o <<"s">>,
     Text(<<"list", "notion", "database">>),
     Text(<<"show", "notion", "database">>),
     Text(<<"my", "notion", "database">>),
     Text(<<"notion", "database">>) \o <<"s", " ">> \o Text(<<"do", "i", "have">>),
     Text(<<"notion", "database">>) \o <<"s", " ">> \o Text(<<"i", "have">>),
     Text(<<"access", "to", "notion", "database">>),
     Text(<<"what", "database">>) \o <<"s", " ">> \o Text(<<"do", "i", "have", "in", "notion">>)}

\* lines 721-724
SearchPhrases ==
    {Text(<<"search", "notion">>),
     Text(<<"find", "in", "notion">>),
     Text(<<"look", "for", "in", "notion">>),
     Text(<<"search", "my", "notion", "for">>),
     Text(<<"find", "notion", "pages", "about">>)}

\* lines 729-732
GeneralPhrases ==
    {Text(<<"list", "notion">>),
     Text(<<"show", "notion">>),
     Text(<<"notion", "database">>),
     Text(<<"notion", "database">>) \o <<"s">>,
     Text(<<"my", "notion">>),
     Text(<<"in", "notion">>),
     Text(<<"from", "notion">>),
     Text(<<"notion", "workspace">>)}

NoToolChoice == [type |-> "absent", name |-> ""]

AutoToolChoice == [type |-> "auto", name |-> ""]

\* lines 716-719
ForcedToolChoice == [type |-> "function", name |-> "list_notion_databases"]

\* lines 709-735: the tool_choice for the lower-case text of the last message
ToolChoice(message) ==
    CASE \E p \in ListingPhrases : contains(message, p) -> ForcedToolChoice
      [] \E p \in SearchPhrases : contains(message, p) -> AutoToolChoice
      [] \E p \in GeneralPhrases : contains(message, p) -> AutoToolChoice
      [] OTHER -> NoToolChoice

\* lines 689-737 for the integration handle of the caller.  The content of
\* a message is a text or a list of parts; .lower() of a list raises
\* AttributeError, which line 736 swallows after the tools were added.
AddIntegrationTools(payload, handle) ==
    IF handle = "none"
    THEN payload
    ELSE LET tooled == [payload EXCEPT
                          !.keys = @ \cup {"tools"},
                          !.tools = (IF "tools" \in payload.keys THEN @ ELSE <<>>)
                                        \o NotionTools]
             last == payload.messages[Len(payload.messages)]
             tool_choice == ToolChoice(lower(last.content.s))
         IN  IF last.content.t # "str" \/ tool_choice = NoToolChoice
             THEN tooled
             ELSE [tooled EXCEPT !.keys = @ \cup {"tool_choice"},
                                 !.tool_choice = tool_choice]

\* a message whose content is a text (t = "str") or a list of parts with
\* one text part (t = "list")
ChatMessage(role, t, s) == [role |-> role, content |-> [t |-> t, s |-> s]]

ListNotionDatabases == Text(<<"list", "notion", "database">>) \o <<"s">>

\* the conversations a caller may submit
Conversations ==
    {<<ChatMessage("user", "str", ListNotionDatabases)>>,
     <<ChatMessage("system", "str", Text(<<"be", "brief">>)),
       ChatMessage("user", "str", Text(<<"please", "LIST", "Notion", "Database">>) \o <<"s">>)>>,
     <<ChatMessage("system", "str", Text(<<"be", "brief">>)),
       ChatMessage("user", "str", Text(<<"search", "notion", "for", "plans">>))>>,
     <<ChatMessage("user", "str", Text(<<"what", "is", "in", "notion">>))>>,
     <<ChatMessage("user", "str", <<"hello">>),
       ChatMessage("system", "str", Text(<<"be", "brief">>)),
       ChatMessage("user", "str", <<"hello">>)>>,
     <<ChatMessage("user", "str", ListNotionDatabases),
       ChatMessage("assistant", "str", <<"hello">>)>>,
     <<ChatMessage("user", "str", <<"hello">>),
       ChatMessage("assistant", "str", Text(<<"it", "is", "in", "notion">>))>>,
     <<ChatMessage("user", "list", ListNotionDatabases)>>}

\* the bodies a caller may submit, but for the model
Forms ==
    {[keys |-> {"model", "messages"}
                 \cup (IF mt THEN {"max_tokens"} ELSE {})
                 \cup (IF mct THEN {"max_completion_tokens"} ELSE {})
                 \cup (IF tl THEN {"tools"} ELSE {})
                 \cup (IF tc THEN {"tool_choice"} ELSE {}),
      model |-> <<>>,
      messages |-> m,
      max_tokens |-> IF mt THEN 100 ELSE 0,
      max_completion_tokens |-> IF mct THEN 200 ELSE 0,
      tools |-> IF tl THEN <<"get_weather">> ELSE <<>>,
      tool_choice |-> IF tc THEN [type |-> "none", name |-> ""] ELSE NoToolChoice] :
        m \in Conversations, mt \in BOOLEAN, mct \in BOOLEAN, tl \in BOOLEAN,
        tc \in BOOLEAN}

\* the ids a provider may list
RawModelIds ==
    {<<"gpt-4">>, <<"llama">>, <<"o1">>, <<"o1", "-", "mini">>, <<"O1", "-", "Mini">>,
     <<"o1", "-", "preview">>, <<"o3", "-", "mini">>,
     <<"b", ".", "llama">>, <<"a", "b", ".", "c">>}

\* lines 365-371: the provider lists the id and the catalog holds it with
\* the prefix of the provider
PrefixModel ==
    /\ forward.pc = "idle"
    /\ forward' = [forward EXCEPT
                      !.pc = "listed",
                      !.id = IF forward.prefix_id # <<>>
                             THEN PrefixModelId(forward.prefix_id, forward.raw)
                             ELSE forward.raw]
    /\ UNCHANGED <<gatewayVars, handlerVars, registryVars, relay, listingVars>>

\* lines 652-740: a request for the catalog id is routed to the provider;
\* the prefix is taken out, the limits are normalised and the tools of an
\* active integration are added.  dbok = FALSE: the lookup of line 692
\* raises, which line 736 swallows
PreparePayload(dbok) ==
    /\ forward.pc = "listed"
    /\ LET form == [forward.form EXCEPT !.model = forward.id]
           stripped == [form EXCEPT !.model = ReplacePrefix(@, forward.prefix_id)]
           limited == NormalizeLimits(stripped, forward.url)
           tooled == IF dbok
                     THEN AddIntegrationTools(limited,
                                              get_user_active_integration(forward.user))
                     ELSE limited
       IN  forward' = [forward EXCEPT !.pc = "prepared", !.dbok = dbok, !.payload = tooled]
    /\ UNCHANGED <<gatewayVars, handlerVars, registryVars, relay, listingVars>>

PayloadInit ==
    /\ integrations \in {[u \in Users |-> IF u = "u1" THEN t ELSE "none"] : t \in {"none", "t1a"}}
    /\ NOTION_ACCESS_TOKEN = ""
    /\ BYPASS_MODEL_ACCESS_CONTROL = FALSE
    /\ OPENAI_MODELS = NoModels
    /\ cache = {}
    /\ req = IdleRequest
    /\ nreq = 0
    /\ function_name = "list_notion_databases"
    /\ arguments = StrVal("{}")
    /\ action_data = NotCalled
    /\ tool_result = NotExecuted
    /\ RegistryIdle
    /\ relay = IdleRelay
    /\ ListingIdle
    /\ forward \in {[pc |-> "idle", user |-> "u1", url |-> url, prefix_id |-> p,
                     raw |-> raw, id |-> <<>>, form |-> form, dbok |-> TRUE,
                     payload |-> form] :
                        url \in {ProviderA, ProviderB}, p \in {<<>>, <<"b">>},
                        raw \in RawModelIds, form \in Forms}

PayloadNext ==
    \/ PrefixModel
    \/ \E dbok \in BOOLEAN : PreparePayload(dbok)

PayloadSpec == PayloadInit /\ [][PayloadNext]_vars

(***************************************************************************)
(* routers/openai.py: the completion call and the relay of its response,   *)
(* lines 742-1046, with the session and the response it holds.             *)
(***************************************************************************)
\* detail of the HTTPException of line 1040 when there is nothing else
GenericError == <<"Open WebUI: Server Connection Error">>

\* the answer of the framework to an exception that is not an HTTPException
InternalServerError == <<"Internal Server Error">>

\* the bodies an upstream may answer with
Bodies ==
    {Body("dict", NoError, FALSE, <<>>),
     Body("dict", NoError, TRUE, <<>>),
     Body("dict", ErrorValue("dict", {"message", "type"}, <<"quota", "exceeded">>, <<>>),
          FALSE, <<>>),
     Body("dict", ErrorValue("dict", {"code"}, <<"overloaded">>, <<>>), FALSE, <<>>),
     Body("dict", ErrorValue("str", {}, <<>>, <<"rate", "limited">>), FALSE, <<>>),
     Body("dict", ErrorValue("str", {}, <<>>, <<"invalid", "message", "role">>), FALSE, <<>>),
     Body("str", NoError, FALSE, <<"Bad", "Gateway">>),
     Body("str", NoError, FALSE, <<>>)}

\* what the upstream does with the completion call: the connection fails,
\* an event stream starts, or a body arrives with a status
UpstreamResponses ==
    {[kind |-> "connect_error", status |-> 0, body |-> NoBody],
     [kind |-> "sse", status |-> 200, body |-> NoBody]}
    \cup {[kind |-> "body", status |-> st, body |-> b] : st \in {200, 400}, b \in Bodies}

\* lines 1031-1036: detail of the error for the local variable response;
\* `'message' in response['error']` is a key test on a dict, a substring
\* test on a str, and response['error']['message'] of a str is a TypeError
ErrorDetail(response) ==
    CASE response.t = "dict" /\ response.has_error /\ response.error.t = "dict" ->
            [raised |-> "",
             detail |-> IF "message" \in response.error.keys
                        THEN response.error.message
                        ELSE response.error.repr]
      [] response.t = "dict" /\ response.has_error /\ response.error.t = "str" ->
            IF contains(response.error.s, <<"message">>)
            THEN [raised |-> "TypeError", detail |-> <<>>]
            ELSE [raised |-> "", detail |-> response.error.s]
      [] response.t = "str" ->
            [raised |-> "", detail |-> response.s]
      [] OTHER ->
            [raised |-> "", detail |-> <<>>]

\* lines 1028-1041: the exception handler, for the status of r (0: r is
\* None) and the local variable response
RaiseHttpException(rl, status, response) ==
    LET e == ErrorDetail(response)
    IN  IF e.raised # ""
        THEN [rl EXCEPT !.pc = "done", !.exit = "exception", !.raised = e.raised,
                        !.status = 500, !.detail = InternalServerError]
        ELSE [rl EXCEPT !.pc = "done", !.exit = "exception", !.raised = "HTTPException",
                        !.status = IF status # 0 THEN status ELSE 500,
                        !.detail = IF e.detail # <<>> THEN e.detail ELSE GenericError]

\* lines 874-1027: a response that is not an event stream.  second is what
\* the provider answers to a continuation call.
BufferedResponse(rl, resp, second) ==
    LET response == resp.body
        returned(body) == [rl EXCEPT !.pc = "done", !.exit = "return", !.status = resp.status,
                                     !.returned = body]
    IN  IF resp.status >= 400
        THEN RaiseHttpException(rl, resp.status, response)
        ELSE IF response.t # "dict"
        THEN RaiseHttpException(rl, resp.status, response)
        ELSE IF ~response.tool_calls
        THEN returned("original")
        ELSE IF PayloadGetRaises(rl.payload)
        THEN returned("original")
        ELSE IF second = "ok"
        THEN returned("final")
        ELSE returned("original")

\* lines 1042-1046 run on a return only
FinallyOnReturn(rl) ==
    IF ~rl.streaming /\ rl.session # "none" /\ rl.exit = "return"
    THEN [rl EXCEPT !.r = IF @ = "open" THEN "closed" ELSE @, !.session = "closed"]
    ELSE rl

\* lines 1042-1046
Finally(rl) ==
    IF ~rl.streaming /\ rl.session # "none"
    THEN [rl EXCEPT !.r = IF @ = "open" THEN "closed" ELSE @, !.session = "closed"]
    ELSE rl

\* cleanup_response, lines 97-104
cleanup_response(rl) ==
    [rl EXCEPT !.r = IF @ = "open" THEN "closed" ELSE @,
               !.session = IF @ = "open" THEN "closed" ELSE @,
               !.background = TRUE]

\* bytes.decode("utf-8") for bytes of one and two byte sequences; ok =
\* FALSE stands for UnicodeDecodeError
RECURSIVE decode(_)
decode(bytes) ==
    IF bytes = <<>>
    THEN [ok |-> TRUE, text |-> <<>>]
    ELSE IF bytes[1] < 128
    THEN LET rest == decode(Tail(bytes))
         IN  [ok |-> rest.ok, text |-> <<bytes[1]>> \o rest.text]
    ELSE IF /\ bytes[1] \in 194..223
            /\ Len(bytes) >= 2
            /\ bytes[2] \in 128..191
    THEN LET rest == decode(SubSeq(bytes, 3, Len(bytes)))
         IN  [ok |-> rest.ok,
              text |-> <<(bytes[1] - 192) * 64 + (bytes[2] - 128)>> \o rest.text]
    ELSE [ok |-> FALSE, text |-> <<>>]

RECURSIVE encode(_)
\* str.encode("utf-8"), which StreamingResponse applies to a str it is given
encode(text) ==
    IF text = <<>>
    THEN <<>>
    ELSE (IF text[1] < 128
          THEN <<text[1]>>
          ELSE <<192 + (text[1] \div 64), 128 + (text[1] % 64)>>) \o encode(Tail(text))

\* a chunk of r.content: its bytes and what its text holds
RelayedChunk(bytes, kind, name, args) ==
    [bytes |-> bytes, kind |-> kind, name |-> name, arguments |-> args]

FunctionCallHead ==
    RelayedChunk(<<123, 34>>, "function_call_head", "list_notion_databases", StrVal(""))

FunctionCallTail == RelayedChunk(<<34, 125>>, "function_call_tail", "", StrVal("{}"))

\* the chunks an upstream may send: text, text with a two byte character,
\* bytes that are not UTF-8, no bytes, a JSON line with a whole
\* message.function_call, and that line cut in two
RelayedChunks ==
    {RelayedChunk(<<104, 105>>, "text", "", StrVal("")),
     RelayedChunk(<<195, 169>>, "text", "", StrVal("")),
     RelayedChunk(<<104, 255>>, "text", "", StrVal("")),
     RelayedChunk(<<>>, "text", "", StrVal("")),
     RelayedChunk(<<123, 34, 34, 125>>, "json_function_call", "list_notion_databases",
                  StrVal("{}")),
     FunctionCallHead,
     FunctionCallTail}

\* lines 742-778: the session is opened and the call is sent; the payload
\* is the JSON text of line 740 and notion_integration the handle read at
\* line 692
SendCompletion(u) ==
    /\ relay.pc = "idle"
    /\ relay' = [relay EXCEPT !.pc = "await", !.user = u, !.session = "open",
                              !.payload = [kind |-> "str"],
                              !.notion_integration = get_user_active_integration(u)]
    /\ UNCHANGED <<gatewayVars, handlerVars, registryVars, forward, listingVars>>

\* lines 752-1046 but for the event stream itself: the call fails, or its
\* response arrives and is returned as a stream or handled as a body
ReceiveResponse(resp, second) ==
    /\ relay.pc = "await"
    /\ (second # "ok") => (resp.kind = "body" /\ resp.status = 200 /\ resp.body.tool_calls
                           /\ ~PayloadGetRaises(relay.payload))
    /\ LET rl == [relay EXCEPT !.upstream = resp]
       IN  relay' =
             CASE resp.kind = "connect_error" ->
                    Finally(RaiseHttpException(rl, 0, NoBody))
               [] resp.kind = "sse" ->
                    Finally([rl EXCEPT !.pc = "streaming", !.r = "open", !.streaming = TRUE,
                                       !.exit = "return", !.status = resp.status,
                                       !.returned = "stream"])
               [] OTHER ->
                    Finally(BufferedResponse([rl EXCEPT !.r = "open"], resp, second))
    /\ UNCHANGED <<gatewayVars, handlerVars, registryVars, forward, listingVars>>

\* iterate_chunks, lines 854-864, one turn of the loop: an empty chunk is
\* passed over; a chunk that decodes is looked at for a function call and
\* yielded as text; for one that does not decode the handler of line 863
\* decodes it again, which raises out of the generator, and the framework
\* gives up the response without running its background task
RelayChunk(chunk, ext) ==
    /\ relay.pc = "streaming"
    /\ Len(relay.received) < MaxRelayed
    /\ LET rl == [relay EXCEPT !.received = Append(@, chunk)]
           text == decode(chunk.bytes)
       IN  relay' =
             IF chunk.bytes = <<>>
             THEN rl
             ELSE IF text.ok
             THEN [rl EXCEPT
                     !.forwarded = Append(@, encode(text.text)),
                     !.executed = @ \o process_response_function_calls(
                                          relay.user, relay, chunk, ext)]
             ELSE [rl EXCEPT !.pc = "done", !.exit = "generator_error",
                             !.raised = "UnicodeDecodeError"]
    /\ UNCHANGED <<gatewayVars, handlerVars, registryVars, forward, listingVars>>

\* lines 866-873: the cleanup is the background task of the
\* StreamingResponse, which the framework runs once the body has been sent
\* or the caller has gone, and not when the body iterator raises or the
\* request task is cancelled
BackgroundRuns(how) == how \in {"complete", "disconnect"}

\* the relay ends
RelayEnd(how) ==
    /\ relay.pc = "streaming"
    /\ LET rl == [relay EXCEPT !.pc = "done", !.exit = how]
       IN  relay' = IF BackgroundRuns(how) THEN cleanup_response(rl) ELSE rl
    /\ UNCHANGED <<gatewayVars, handlerVars, registryVars, forward, listingVars>>

RelayInit ==
    /\ integrations \in {[u \in Users |-> IF u = "u1" THEN t ELSE "none"] : t \in {"none", "t1a"}}
    /\ NOTION_ACCESS_TOKEN = ""
    /\ BYPASS_MODEL_ACCESS_CONTROL = FALSE
    /\ OPENAI_MODELS = NoModels
    /\ cache = {}
    /\ req = IdleRequest
    /\ nreq = 0
    /\ function_name = "list_notion_databases"
    /\ arguments = StrVal("{}")
    /\ action_data = NotCalled
    /\ tool_result = NotExecuted
    /\ RegistryIdle
    /\ PathIdle

RelayNext ==
    \/ \E u \in Users : SendCompletion(u)
    \/ \E resp \in UpstreamResponses, second \in {"ok", "error"} : ReceiveResponse(resp, second)
    \/ \E chunk \in RelayedChunks, ext \in ExternalOutcomes : RelayChunk(chunk, ext)
    \/ \E how \in {"complete", "disconnect", "upstream_error", "cancelled"} : RelayEnd(how)

RelaySpec == RelayInit /\ [][RelayNext]_vars

(***************************************************************************)
(* routers/openai.py: get_models, the catalog endpoint GET /models and     *)
(* GET /models/{url_idx}, with get_filtered_models, while administrators   *)
(* update the registry.  Lists and dicts are objects of the heap, named by *)
(* their position in heap.objects: an assignment binds a name to an        *)
(* object, `+=` on a list and an item assignment on a dict change the      *)
(* object itself.                                                          *)
(***************************************************************************)
\* per-provider settings: provider 0 with an allow-list and provider 1
\* switched off; provider 1 switched off though it has an allow-list; the
\* legacy form, keyed by the base URL
AllowListed ==
    [k \in {"0", "1"} |->
        IF k = "0" THEN ApiConfigEntry(TRUE, <<"custom", "whisper-1">>, "")
        ELSE ApiConfigEntry(FALSE, <<>>, "")]

ListingConfigs ==
    { NoApiConfigs, PrefixB, AllowListed,
      [k \in {"1"} |-> ApiConfigEntry(FALSE, <<"custom">>, "")],
      [k \in {ProviderB} |-> ApiConfigEntry(TRUE, <<"custom", "whisper-1">>, "")] }

\* the registries a deployment may be started with
ListingRegistries ==
    { Registry(enable, OPENAI_API_BASE_URLS, keys, configs) :
        enable \in BOOLEAN,
        keys \in {<<"key-a">>, <<"key-a", "key-b">>},
        configs \in ListingConfigs }

\* a new object with value v; it is the last of heap.objects
Alloc(h, v) == [h EXCEPT !.objects = Append(@, v)]

\* lines 288-298: `OPENAI_API_KEYS = new_keys` binds the registry to a new
\* list, `OPENAI_API_KEYS += [...]` extends the list the registry names
FixKeysObject(h, num_urls) ==
    LET keys == h.objects[h.OPENAI_API_KEYS]
    IN  IF Len(keys) > num_urls
        THEN [Alloc(h, FixKeys(keys, num_urls)) EXCEPT
                 !.OPENAI_API_KEYS = Len(h.objects) + 1]
        ELSE IF Len(keys) < num_urls
        THEN [h EXCEPT !.objects[h.OPENAI_API_KEYS] = FixKeys(keys, num_urls)]
        ELSE h

\* lines 377-387 left out: every model is kept
get_unfiltered_models(models, u) == models

\* lines 377-387
get_filtered_models(models, u) ==
    LET entitled(model) ==
            /\ model.id \in RegisteredModels
            /\ \/ u = ModelInfo(model.id).user_id
               \/ has_access(u, ModelInfo(model.id))
    IN  SelectSeq(models, entitled)

\* lines 527-528: models["data"] = ... is an item assignment in the dict
\* that models names
FilterModels(h, ref, u) ==
    IF Role(u) = "user" /\ ~BYPASS_MODEL_ACCESS_CONTROL
    THEN [h EXCEPT !.objects[ref] = get_filtered_models(@, u)]
    ELSE h

\* lines 305-311 and 325-331: the GET calls of the tasks
SentFor(request_tasks) ==
    LET gets == SelectSeq(request_tasks, LAMBDA task : task.kind = "get")
    IN  [k \in 1..Len(gets) |-> [idx |-> gets[k].idx, url |-> gets[k].url,
                                  key |-> gets[k].key]]

\* lines 452-460, and get_all_models up to the gather of line 353
GetModels(u, url_idx) ==
    /\ listing.pc \in {"idle", "done"}
    /\ listing.n < MaxListings
    /\ LET r == [IdleListing EXCEPT !.n = listing.n + 1, !.user = u, !.url_idx = url_idx]
           num_urls == Len(config.OPENAI_API_BASE_URLS)
       IN  IF url_idx = -1
           THEN IF ~ApiEnabled(config)
                THEN LET made == Alloc(heap, <<>>)
                         ref == Len(made.objects)
                         h == FilterModels([made EXCEPT !.cached = @ \cup {ref}], ref, u)
                     IN  /\ listing' = [r EXCEPT !.pc = "done", !.fanned = config,
                                                 !.models = ref, !.data = h.objects[ref],
                                                 !.status = 200]
                         /\ heap' = h
                         /\ UNCHANGED config
                ELSE LET fixed == [config EXCEPT !.OPENAI_API_KEYS = FixKeys(@, num_urls)]
                     IN  /\ listing' = [r EXCEPT !.pc = "gather", !.fanned = fixed,
                                                 !.request_tasks = RequestTasks(fixed),
                                                 !.sent = SentFor(RequestTasks(fixed))]
                         /\ heap' = FixKeysObject(heap, num_urls)
                         /\ config' = fixed
           ELSE /\ listing' =
                     IF url_idx + 1 > num_urls \/ url_idx + 1 > Len(config.OPENAI_API_KEYS)
                     THEN [r EXCEPT !.pc = "done", !.fanned = config, !.status = 500,
                                    !.raised = "IndexError"]
                     ELSE [r EXCEPT !.pc = "single", !.fanned = config,
                                    !.sent = <<[idx |-> url_idx,
                                                url |-> config.OPENAI_API_BASE_URLS[url_idx + 1],
                                                key |-> config.OPENAI_API_KEYS[url_idx + 1]]>>]
                /\ UNCHANGED <<heap, config>>
    /\ UNCHANGED <<integrations, NOTION_ACCESS_TOKEN, BYPASS_MODEL_ACCESS_CONTROL,
                   OPENAI_MODELS, cache, req, nreq, handlerVars, forward, relay,
                   update, tasks, installed, published>>

\* lines 353-374 and 399-444, then 527-530: the gather returns, the dict of
\* line 440 is made, returned through the cache of line 390 and filtered
GatherModels(outcomes) ==
    /\ listing.pc = "gather"
    /\ LET responses == Responses(listing.request_tasks, outcomes)
           result == get_all_models(config, responses)
           made == Alloc(heap, result.models)
           ref == Len(made.objects)
           h == FilterModels([made EXCEPT !.cached = @ \cup {ref}], ref, listing.user)
       IN  IF result.raised # ""
           THEN /\ listing' = [listing EXCEPT !.pc = "done", !.responses = responses,
                                              !.status = 500, !.raised = result.raised]
                /\ UNCHANGED <<heap, OPENAI_MODELS>>
           ELSE /\ listing' = [listing EXCEPT !.pc = "done", !.responses = responses,
                                              !.models = ref, !.data = h.objects[ref],
                                              !.status = 200]
                /\ heap' = h
                /\ OPENAI_MODELS' = ModelsById(result.models)
    /\ UNCHANGED <<integrations, NOTION_ACCESS_TOKEN, BYPASS_MODEL_ACCESS_CONTROL,
                   cache, req, nreq, handlerVars, forward, relay, registryVars>>

\* lines 463-530: the provider answers the call of line 469
ProviderAnswers(outcome) ==
    /\ listing.pc = "single"
    /\ LET url == listing.sent[1].url
           listed == [k \in DOMAIN ProviderListing(url) |-> [id |-> ProviderListing(url)[k]]]
           response_data ==
               IF outcome = "listing" THEN listed ELSE <<>>
           kept == IF FirstParty(url)
                   THEN SelectSeq(response_data, LAMBDA model : ~Denylisted(model.id))
                   ELSE response_data
           made == Alloc(heap, kept)
           ref == Len(made.objects)
           h == FilterModels(made, ref, listing.user)
           raises ==
               \/ outcome = "error"
               \/ /\ outcome = "scalar"
                  /\ \/ FirstParty(url)
                     \/ Role(listing.user) = "user" /\ ~BYPASS_MODEL_ACCESS_CONTROL
       IN  IF raises
           THEN /\ listing' = [listing EXCEPT !.pc = "done", !.status = 500,
                                              !.responses = <<send_get_request(url, outcome)>>,
                                              !.raised = IF outcome = "error"
                                                         THEN "ClientError"
                                                         ELSE "AttributeError"]
                /\ UNCHANGED heap
           ELSE /\ listing' = [listing EXCEPT !.pc = "done", !.models = ref,
                                              !.responses = <<send_get_request(url, outcome)>>,
                                              !.data = h.objects[ref], !.status = 200]
                /\ heap' = h
    /\ UNCHANGED <<gatewayVars, handlerVars, forward, relay, registryVars>>

\* update_config, lines 157-194, which holds no await: the key list of the
\* form becomes the key list of the registry
ListingUpdate(form) ==
    /\ listing.n < MaxListings
    /\ LET keys == FixKeys(form.OPENAI_API_KEYS, Len(form.OPENAI_API_BASE_URLS))
       IN  /\ config' = Registry(form.ENABLE_OPENAI_API, form.OPENAI_API_BASE_URLS, keys,
                                 FilterConfigs(form.OPENAI_API_CONFIGS,
                                               form.OPENAI_API_BASE_URLS))
           /\ heap' = [Alloc(heap, keys) EXCEPT !.OPENAI_API_KEYS = Len(heap.objects) + 1]
    /\ listing' = [listing EXCEPT !.n = @ + 1]
    /\ UNCHANGED <<gatewayVars, handlerVars, forward, relay,
                   update, tasks, installed, published>>

\* line 390: the entries of the cache end after three seconds
ListingExpire ==
    /\ heap.cached # {}
    /\ heap' = [heap EXCEPT !.cached = {}]
    /\ UNCHANGED <<gatewayVars, handlerVars, forward, relay, listing, registryVars>>

ListingInit ==
    /\ integrations = [u \in Users |-> "none"]
    /\ NOTION_ACCESS_TOKEN = ""
    /\ BYPASS_MODEL_ACCESS_CONTROL \in BOOLEAN
    /\ OPENAI_MODELS = NoModels
    /\ cache = {}
    /\ req = IdleRequest
    /\ nreq = 0
    /\ function_name = "list_notion_databases"
    /\ arguments = StrVal("{}")
    /\ action_data = NotCalled
    /\ tool_result = NotExecuted
    /\ config \in ListingRegistries
    /\ update = IdleUpdate
    /\ tasks = [t \in TaskIds |-> IdleTask]
    /\ installed = config
    /\ published = NoModels
    /\ forward = IdleForward
    /\ relay = IdleRelay
    /\ ListingIdle

ListingNext ==
    \/ \E u \in Users, url_idx \in {-1, 0, 1} : GetModels(u, url_idx)
    \/ \E outcomes \in [DOMAIN OPENAI_API_BASE_URLS -> Outcomes] : GatherModels(outcomes)
    \/ \E outcome \in Outcomes : ProviderAnswers(outcome)
    \/ \E form \in ConfigForms : ListingUpdate(form)
    \/ ListingExpire

ListingSpec == ListingInit /\ [][ListingNext]_vars

(***************************************************************************)
(* Properties.                                                             *)
(***************************************************************************)
\* the request went through the tool calls of a buffered response
HadToolCalls == req.pc = "done" /\ req.tool_calls # <<>>

ResponsesFor(id) ==
    {j \in 1..Len(req.function_responses) : req.function_responses[j].tool_call_id = id}

Continuations == {j \in 1..Len(req.calls) : req.calls[j].kind = "continuation"}

ToolMessagesOf(call) == {k \in 1..Len(call.messages) : call.messages[k].role = "tool"}

ErrorContent(content) == content.status = "error" \/ content.error # ""

\* C1: when a buffered response carries N tool calls, each of them gets
\* exactly one Tool Result and a continuation is sent whose tool messages
\* are N in number and reference the N tool_call_ids, one each.
C1_EveryToolCallAnswered ==
    HadToolCalls =>
        /\ \A k \in 1..Len(req.tool_calls) :
              Cardinality(ResponsesFor(req.tool_calls[k].id)) = 1
        /\ \E j \in Continuations :
              /\ Cardinality(ToolMessagesOf(req.calls[j])) = Len(req.tool_calls)
              /\ \A k \in 1..Len(req.tool_calls) :
                    \E n \in ToolMessagesOf(req.calls[j]) :
                        req.calls[j].messages[n].tool_call_id = req.tool_calls[k].id

\* C3: a buffered response with a recognised tool call is answered by a
\* second upstream call whose response is returned; a response without tool
\* calls is returned as it is, with no second call.
C3_ContinuationReplacesOriginal ==
    (req.pc = "done" /\ req.status = 200 /\ req.body # "stream") =>
        /\ (\E k \in 1..Len(req.tool_calls) : Recognized(req.tool_calls[k])) =>
              /\ Len(req.calls) = 2
              /\ req.calls[2].kind = "continuation"
              /\ req.body = "final"
        /\ req.tool_calls = <<>> =>
              /\ Len(req.calls) = 1
              /\ req.body = "original"

\* C4: once the tool results are there, the continuation is the original
\* messages, the assistant message and one tool message per result, with
\* the model, stream flag and other parameters of the first call, sent to
\* the URL, endpoint and key of the first call.
C4_ContinuationShape ==
    (req.pc = "done" /\ req.function_responses # <<>>) =>
        \E j \in Continuations :
            /\ req.calls[j].messages =
                  Messages \o <<AssistantMessage>> \o ToolMessages(req.function_responses)
            /\ req.calls[j].model = req.calls[1].model
            /\ req.calls[j].stream = req.calls[1].stream
            /\ req.calls[j].tools = req.calls[1].tools
            /\ req.calls[j].url = req.calls[1].url
            /\ req.calls[j].path = req.calls[1].path
            /\ req.calls[j].key = req.calls[1].key

\* C5: every recognised tool call the loop has gone through has exactly one
\* Tool Result, which is an error object whenever the execution met an
\* error (not connected, Notion error status, exception, missing parameter
\* after malformed arguments), and the request ends with status 200 and a
\* completion response.
C5_ToolErrorsBecomeResults ==
    (req.pc \in {"tool_loop", "done"} /\ req.tool_calls # <<>>) =>
        /\ \A k \in 1..req.i :
              Recognized(req.tool_calls[k]) =>
                /\ Cardinality(ResponsesFor(req.tool_calls[k].id)) = 1
                /\ \A j \in ResponsesFor(req.tool_calls[k].id) :
                      req.function_responses[j].cause # "ok" =>
                          ErrorContent(req.function_responses[j].content)
        /\ req.pc = "done" => (req.status = 200 /\ req.body \in {"original", "final"})

\* a request that ended after a Notion error status on one tool call and a
\* missing parameter (malformed arguments) on another
C5_Witness ==
    /\ req.pc = "done"
    /\ req.status = 200
    /\ \E j \in 1..Len(req.function_responses) : req.function_responses[j].cause = "err"
    /\ \E j \in 1..Len(req.function_responses) :
          req.function_responses[j].cause = "missing_parameter"

\* C6: a list_notion_databases call met with no active integration gives a
\* continuation whose tool message for the call carries the "not connected"
\* error, makes no Notion call, and the caller gets the final response of
\* the continuation with status 200.
C6_NotConnectedScenario ==
    \A k \in 1..Len(req.tool_calls) :
        (/\ req.pc = "done"
         /\ req.tool_calls[k].name = "list_notion_databases"
         /\ \E j \in ResponsesFor(req.tool_calls[k].id) :
               req.function_responses[j].cause = "not_connected") =>
            /\ \E j \in Continuations : \E n \in ToolMessagesOf(req.calls[j]) :
                  /\ req.calls[j].messages[n].tool_call_id = req.tool_calls[k].id
                  /\ req.calls[j].messages[n].content.error = "Notion integration not connected"
            /\ \A e \in 1..Len(req.external) :
                  req.external[e].tool_call_id # req.tool_calls[k].id
            /\ req.status = 200
            /\ req.body = "final"

\* the argument values that are not a JSON object
MalformedArguments ==
    {StrVal(""), StrVal(" "), StrVal("{"), StrVal("null"), StrVal("[1]"), StrVal("3"),
     StrVal("\"x\""), NoneVal, ListVal, IntVal}

\* C7: for every recognised function name, arguments that are an empty
\* string, malformed JSON, null or not an object give, without raising,
\* the action data that the arguments {} give.
C7_MalformedArgumentsAreEmpty ==
    (action_data # NotCalled /\ arguments \in MalformedArguments) =>
        /\ ~action_data.raised
        /\ action_data = handle_notion_function_execution(function_name, ObjVal(EmptyDict))

\* query_notion_database was called with the malformed text "{"
C7_Witness ==
    /\ action_data # NotCalled
    /\ function_name = "query_notion_database"
    /\ arguments = StrVal("{")
    /\ action_data.params.database_id = PyNone

\* C8: every Notion call made for a caller carries the token of the
\* integration handle of that caller.
C8_OwnToken ==
    \A e \in 1..Len(req.external) :
        /\ req.external[e].token = req.external[e].handle
        /\ req.external[e].token \in TokensOf(req.user)

\* C9: the handle a tool call is executed with is the one the integration
\* store holds when the tool call is executed, on both paths.
C9_HandleRefetched ==
    \A e \in 1..Len(req.external) : req.external[e].handle = req.external[e].stored

FannedOut(t) == tasks[t].pc = "done" /\ tasks[t].request_tasks # <<>>

\* the raw id of a catalog id
RawOf(id) == StripPrefix(id, "b")

\* the ids, without prefix, of the list get_all_models returned to request t
ReturnedIds(t) == {RawOf(tasks[t].models[k].id) : k \in 1..Len(tasks[t].models)}

\* the ids listed by the providers that answered request t with data
ListedIds(t) ==
    UNION {{ProviderListing(tasks[t].request_tasks[i].url)[k] :
                k \in 1..Len(ProviderListing(tasks[t].request_tasks[i].url))} :
           i \in tasks[t].answered}

\* C12: get_all_models never raises, whatever the providers do, and returns
\* an empty list when no provider gives data.
C12_CatalogNeverRaises ==
    \A t \in TaskIds :
        /\ tasks[t].raised = ""
        /\ (FannedOut(t) /\ tasks[t].answered = {}) =>
              (tasks[t].returned /\ tasks[t].models = <<>>)

\* C13: when one provider of a fan-out gives no data and another answers,
\* get_all_models still returns, and the merged list holds the models (but
\* for the families left out for the first-party provider) of the
\* providers that answered, and no others.
C13_FailureIsolated ==
    \A t \in TaskIds :
        (/\ FannedOut(t)
         /\ tasks[t].answered # {}
         /\ \E i \in 1..Len(tasks[t].request_tasks) : i \notin tasks[t].answered) =>
            /\ tasks[t].raised = ""
            /\ tasks[t].returned
            /\ ReturnedIds(t) \ {"whisper-1"} = ListedIds(t) \ {"whisper-1"}

\* C14: a call of get_all_models made while the cache entry of an earlier
\* call, of any request and caller, is live is answered from the cache with
\* no call to a provider; a call made with no live entry makes one fan-out.
C14_CachedWithinTtl ==
    \A t \in TaskIds :
        /\ (tasks[t].pc # "idle" /\ tasks[t].window) =>
              (tasks[t].hit /\ tasks[t].request_tasks = <<>>)
        /\ (tasks[t].pc # "idle" /\ ~tasks[t].window) =>
              (~tasks[t].hit /\ tasks[t].request_tasks # <<>>)

\* C15: OPENAI_MODELS is always the whole map of one merge, and the map a
\* request reads at line 643 is the whole map of the last finished merge,
\* never a mix of the maps of two merges.
C15_CatalogWhole ==
    /\ OPENAI_MODELS = published
    /\ \A t \in TaskIds :
          (tasks[t].pc = "done" /\ tasks[t].returned) => tasks[t].catalog = published

\* a request read the map its own merge published while the fan-out of
\* another request was in flight, and the merge dropped nothing it listed
C15_Witness ==
    \E t \in TaskIds, k \in TaskIds :
        /\ FannedOut(t)
        /\ tasks[t].returned
        /\ tasks[t].window
        /\ tasks[t].catalog = published
        /\ DOMAIN tasks[t].catalog = {"gpt-4"}
        /\ tasks[k].pc = "gather"

\* C16: an id occurs once in the merged list, and the provider index of an
\* id that two providers list is the index of the first of them.
C16_FirstProviderWins ==
    \A t \in TaskIds :
        (FannedOut(t) /\ tasks[t].returned) =>
            /\ \A j \in 1..Len(tasks[t].models), k \in 1..Len(tasks[t].models) :
                  tasks[t].models[j].id = tasks[t].models[k].id => j = k
            /\ \A k \in 1..Len(tasks[t].models) :
                  (\A j \in 1..(k - 1) : tasks[t].models[j].id # tasks[t].models[k].id) =>
                      tasks[t].catalog[tasks[t].models[k].id] = tasks[t].models[k].urlIdx

\* C17: the completion call of a request goes to a provider that lists the
\* model of the call, at the index the catalog holds for it; with A
\* answering and B failing, a request for gpt-4 is sent to A.
C17_RoutedToListingProvider ==
    \A t \in TaskIds :
        (tasks[t].pc = "done" /\ tasks[t].call # <<>>) =>
            /\ \E k \in 1..Len(ProviderListing(tasks[t].call[1].url)) :
                  ProviderListing(tasks[t].call[1].url)[k] = tasks[t].call[1].model
            /\ tasks[t].call[1].urlIdx = tasks[t].catalog[tasks[t].model_id]
            /\ (/\ FannedOut(t)
                /\ tasks[t].answered = {1}
                /\ tasks[t].request_tasks[1].url = ProviderA
                /\ tasks[t].model_id = "gpt-4") =>
                    tasks[t].call[1].url = ProviderA

\* C18: once an update_config call has finished or a fan-out has been made,
\* the key list is as long as the base-URL list; after an update the
\* base-URL list is the submitted one and the keys are the submitted ones,
\* cut or filled with "".
C18_KeysMatchUrls ==
    /\ (/\ update.pc = "idle"
        /\ \/ update.n > 0
           \/ \E t \in TaskIds : tasks[t].request_tasks # <<>>) =>
            Len(config.OPENAI_API_KEYS) = Len(config.OPENAI_API_BASE_URLS)
    /\ (update.pc = "idle" /\ update.n > 0) =>
            /\ config.OPENAI_API_BASE_URLS = update.form.OPENAI_API_BASE_URLS
            /\ \A i \in 1..Len(config.OPENAI_API_BASE_URLS) :
                  /\ i <= Len(config.OPENAI_API_KEYS)
                  /\ config.OPENAI_API_KEYS[i] =
                        IF i <= Len(update.form.OPENAI_API_KEYS)
                        THEN update.form.OPENAI_API_KEYS[i]
                        ELSE ""

\* an update with a key missing has finished and the key was added as ""
C18_Witness ==
    /\ update.pc = "idle"
    /\ update.n > 0
    /\ Len(update.form.OPENAI_API_KEYS) < Len(update.form.OPENAI_API_BASE_URLS)
    /\ config.OPENAI_API_KEYS = <<"key-a", "">>

\* C19: no request raises IndexError: every position of a fan-out and
\* every urlIdx of the catalog is within the base-URL list and the key list
\* when it is used.
C19_IndexesInRange ==
    \A t \in TaskIds :
        /\ tasks[t].raised # "IndexError"
        /\ tasks[t].route_raised # "IndexError"

\* C20: the registry a request reads is the one the last finished
\* operation left: never the base URLs of an update with the keys or the
\* settings of before it.
C20_UpdateAtomic ==
    \A t \in TaskIds : tasks[t].pc # "idle" => tasks[t].observed = tasks[t].whole

\* a request whose fan-out was made before an update that shortened the
\* base-URL list read the registry after it
C20_Witness ==
    \E t \in TaskIds :
        /\ FannedOut(t)
        /\ update.n > 0
        /\ update.pc = "idle"
        /\ Len(tasks[t].request_tasks) > Len(tasks[t].observed.OPENAI_API_BASE_URLS)
        /\ tasks[t].observed = config

\* the handler returned a StreamingResponse and the relay of it is over
RelayOver == relay.pc = "done" /\ relay.streaming

\* C21: however a streaming relay ends, the upstream response and its
\* session are closed once it has ended.
C21_RelayReleased ==
    RelayOver => (relay.r = "closed" /\ relay.session = "closed")

\* the chunks received that hold bytes
NonEmptyReceived == SelectSeq(relay.received, LAMBDA c : c.bytes # <<>>)

\* C22: when a request that was not answered with an event stream is over,
\* by a return or by an exception, its session is closed, and so is the
\* upstream response if there was one.
C22_BufferedReleased ==
    (relay.pc = "done" /\ ~relay.streaming) =>
        /\ relay.session = "closed"
        /\ relay.r \in {"none", "closed"}

\* a response with tool calls was answered with the original response
\* after the continuation could not be built, and both were closed
C22_Witness ==
    /\ relay.pc = "done"
    /\ ~relay.streaming
    /\ relay.upstream.body.tool_calls
    /\ relay.returned = "original"
    /\ relay.r = "closed"
    /\ relay.session = "closed"

\* C23: the bytes sent to the caller are the non-empty chunks received, in
\* their order and unchanged, with nothing added.
C23_ChunksPassedThrough ==
    relay.streaming =>
        /\ Len(relay.forwarded) = Len(NonEmptyReceived)
        /\ \A i \in 1..Len(relay.forwarded) : relay.forwarded[i] = NonEmptyReceived[i].bytes

\* the function calls that have arrived whole, in one chunk or in two
\* chunks that follow each other
ArrivedWhole ==
    {i \in 1..Len(relay.received) :
        \/ relay.received[i].kind = "json_function_call"
        \/ /\ i > 1
           /\ relay.received[i] = FunctionCallTail
           /\ relay.received[i - 1] = FunctionCallHead}

\* C24: with an active integration, an action is executed for every
\* function call that has arrived whole, in one chunk or cut in two, and
\* for nothing else.
C24_FragmentsBuffered ==
    (relay.streaming /\ relay.notion_integration \in TokensOf(relay.user)) =>
        Len(relay.executed) = Cardinality(ArrivedWhole)

\* C25: a chunk that is not UTF-8 is sent as it is and does not end the
\* stream.
C25_UndecodableForwarded ==
    \A i \in 1..Len(NonEmptyReceived) :
        ~decode(NonEmptyReceived[i].bytes).ok =>
            /\ relay.raised # "UnicodeDecodeError"
            /\ Len(relay.forwarded) >= i
            /\ relay.forwarded[i] = NonEmptyReceived[i].bytes

\* the request ended with an error after a failure of the provider
ProviderFailed ==
    /\ relay.pc = "done"
    /\ \/ relay.upstream.kind = "connect_error"
       \/ relay.upstream.kind = "body" /\ relay.upstream.status >= 400

\* C26: a failure of the provider ends the request with one error: with
\* the message of the upstream error, or the upstream error itself, for a
\* JSON error body, with the text for a text body, and with the generic
\* message and status 500 for a failed connection; the status is otherwise
\* the upstream status.
C26_ProviderErrorSurfaced ==
    ProviderFailed =>
        LET body == relay.upstream.body
        IN  /\ relay.exit = "exception"
            /\ relay.upstream.kind = "connect_error" =>
                  (relay.status = 500 /\ relay.detail = GenericError)
            /\ relay.upstream.kind = "body" =>
                  /\ relay.status = relay.upstream.status
                  /\ (body.t = "dict" /\ body.error.t = "dict"
                                      /\ "message" \in body.error.keys) =>
                        relay.detail = body.error.message
                  /\ (body.t = "dict" /\ body.error.t = "str") =>
                        relay.detail = body.error.s
                  /\ (body.t = "str" /\ body.s # <<>>) => relay.detail = body.s

\* the payload went through lines 652-740
Prepared == forward.pc = "prepared"

C29_PrefixRoundTrip ==
    (Prepared /\ forward.prefix_id # <<>>) =>
        /\ forward.id = forward.prefix_id \o <<".">> \o forward.raw
        /\ forward.payload.model = forward.raw

\* the text of the last message with role user, <<>> when there is none
LastUserText(messages) ==
    LET users == {i \in 1..Len(messages) : messages[i].role = "user"}
    IN  IF users = {} THEN <<>> ELSE messages[MaxOf(users)].content.s

\* the caller of the payload has an active integration
ActiveIntegration == integrations[forward.user] # "none"

\* the tools of the integration are in the payload, and tool_choice names
\* list_notion_databases
ToolsForced ==
    /\ "tools" \in forward.payload.keys
    /\ \A k \in 1..Len(NotionTools) :
          \E j \in 1..Len(forward.payload.tools) : forward.payload.tools[j] = NotionTools[k]
    /\ "tool_choice" \in forward.payload.keys
    /\ forward.payload.tool_choice = ForcedToolChoice

\* C30: a request with no tools, of a caller with an active integration,
\* whose last user message holds "list notion databases", is sent with the
\* tools of the integration and tool_choice forced to list_notion_databases.
C30_LastUserMessageForces ==
    (/\ Prepared
     /\ "tools" \notin forward.form.keys
     /\ ActiveIntegration
     /\ contains(LastUserText(forward.form.messages), ListNotionDatabases)) =>
        ToolsForced

\* C38: with no active integration, or when the lookup of the integration
\* fails, the payload is sent with the tools and the tool_choice that the
\* client submitted; with an active integration and a last user message
\* that holds none of the phrases, the tools of the integration are added
\* after the submitted ones and tool_choice is as the client submitted it.
C38_ToolsAndChoiceKept ==
    Prepared =>
        LET sent == forward.payload
            submitted == forward.form
            same_choice ==
                /\ ("tool_choice" \in sent.keys) <=> ("tool_choice" \in submitted.keys)
                /\ sent.tool_choice = submitted.tool_choice
            same_tools ==
                /\ ("tools" \in sent.keys) <=> ("tools" \in submitted.keys)
                /\ sent.tools = submitted.tools
            matches == ToolChoice(lower(LastUserText(submitted.messages))) # NoToolChoice
        IN  /\ (~ActiveIntegration \/ ~forward.dbok) => (same_tools /\ same_choice)
            /\ (ActiveIntegration /\ forward.dbok /\ ~matches) =>
                    /\ "tools" \in sent.keys
                    /\ sent.tools = submitted.tools \o NotionTools
                    /\ same_choice

(***************************************************************************)
(* Properties of the catalog endpoint.                                     *)
(***************************************************************************)
\* a fan-out round of get_all_models_responses was made for the call
FanOutMade == listing.url_idx = -1 /\ listing.request_tasks # <<>>

\* the round called provider idx
Contacted(idx) == \E k \in DOMAIN listing.sent : listing.sent[k].idx = idx

\* C31: in a fan-out round GET {url}/models is sent to provider i exactly
\* when, in the registry the round read, i is enabled and has no model_ids;
\* a provider with model_ids is not called and its response at line 353
\* holds exactly its model_ids; a provider that is not enabled is not
\* called and its response is None.
C31_FanOutByProvider ==
    FanOutMade =>
        \A i \in 1..Len(listing.fanned.OPENAI_API_BASE_URLS) :
            LET api_config == ApiConfig(listing.fanned, i - 1)
                gathered == listing.pc = "done"
            IN  /\ Contacted(i - 1) <=> (api_config.enable /\ api_config.model_ids = <<>>)
                /\ Cardinality({k \in DOMAIN listing.sent : listing.sent[k].idx = i - 1}) <= 1
                /\ (gathered /\ api_config.enable /\ api_config.model_ids # <<>>) =>
                        /\ listing.responses[i].kind = "dict"
                        /\ listing.responses[i].has_data
                        /\ listing.responses[i].data = api_config.model_ids
                /\ (gathered /\ ~api_config.enable) => listing.responses[i] = NoneResponse

\* a round over a provider with an allow-list and a provider switched off
\* has returned
C31_Witness ==
    /\ FanOutMade
    /\ listing.pc = "done"
    /\ \E i \in DOMAIN listing.request_tasks :
          ApiConfig(listing.fanned, i - 1).enable /\ ApiConfig(listing.fanned, i - 1).model_ids # <<>>
    /\ \E i \in DOMAIN listing.request_tasks : ~ApiConfig(listing.fanned, i - 1).enable

\* the call was answered with the list as it is before any access filter
UnfilteredListing ==
    /\ listing.pc = "done"
    /\ listing.status = 200
    /\ Role(listing.user) # "user" \/ BYPASS_MODEL_ACCESS_CONTROL

\* the ids the caller got for the provider of position i of the call
GotFrom(i) ==
    {listing.data[k].id :
        k \in {j \in DOMAIN listing.data :
                  listing.url_idx = -1 => listing.data[j].urlIdx = i - 1}}

\* the base URL of the provider that gave the response of position i
AskedUrl(i) ==
    IF listing.url_idx = -1 THEN listing.request_tasks[i].url ELSE listing.sent[1].url

\* C32: of the models a provider gave, the catalog leaves out those of the
\* first-party provider (api.openai.com) whose id is of a denylisted family
\* and holds every other one, under its id or its prefixed id; this for the
\* merged catalog and for the listing of one provider.
C32_DenylistOnlyFirstParty ==
    UnfilteredListing =>
        \A i \in DOMAIN listing.responses :
            listing.responses[i].has_data =>
                \A k \in DOMAIN listing.responses[i].data :
                    LET id == listing.responses[i].data[k]
                    IN  (FirstParty(AskedUrl(i)) /\ Denylisted(id))
                            <=> ({id, Prefixed("b", id)} \cap GotFrom(i) = {})

\* the call was answered to a caller of role user with no bypass configured
ListedForUser ==
    /\ listing.pc = "done"
    /\ listing.status = 200
    /\ Role(listing.user) = "user"
    /\ ~BYPASS_MODEL_ACCESS_CONTROL

\* C33: a caller of role user, with no access-control bypass, gets from
\* GET /models and from GET /models/{url_idx} only models that are
\* registered and that the caller owns or may read.
C33_OnlyEntitledModels ==
    ListedForUser =>
        \A k \in DOMAIN listing.data :
            /\ listing.data[k].id \in RegisteredModels
            /\ \/ ModelInfo(listing.data[k].id).user_id = listing.user
               \/ has_access(listing.user, ModelInfo(listing.data[k].id))

\* a caller of role user got a model of theirs while a model the providers
\* gave was held back
C33_Witness ==
    /\ ListedForUser
    /\ listing.data # <<>>
    /\ \E i \in DOMAIN listing.responses :
          \E k \in DOMAIN listing.responses[i].data :
              listing.responses[i].data[k] \notin {listing.data[j].id : j \in DOMAIN listing.data}

\* the objects that the registry or an entry of the cache names
SharedObjects == {heap.OPENAI_API_KEYS} \cup heap.cached

\* C35: no step of the catalog endpoint or of update_config changes a list
\* or dict object that the registry or an entry of the cache names: the
\* registry and the cache only ever come to name another object.
C35_OnlyWholeReplacement ==
    [][\A ref \in SharedObjects : heap'.objects[ref] = heap.objects[ref]]_vars

(***************************************************************************)
(* Properties of the execution of a tool call and of its Tool Result.      *)
(***************************************************************************)
\* execute_notion_tool was called for the tool call and its result formatted
Executed == tool_result # NotExecuted

\* C34: the content of the Tool Result of a list_notion_databases call on
\* which the Notion API returns k databases has status success, count k
\* and the k databases with their id and url; when the call to the Notion
\* API fails the content has status error and the text of the error.
C34_ToolResultSummarises ==
    (Executed /\ function_name = "list_notion_databases") =>
        LET content == tool_result.content
            returned == tool_result.answer.results
        IN  IF tool_result.ext = "ok"
            THEN /\ content.status = "success"
                 /\ DictGet(content, "count", -1) = Len(returned)
                 /\ Len(DictGet(content, "databases", <<>>)) = Len(returned)
                 /\ \A i \in DOMAIN returned :
                        /\ content.databases[i].id = returned[i].id
                        /\ content.databases[i].url = returned[i].url
            ELSE /\ content.status = "error"
                 /\ content.message = tool_result.result.message

\* the tool call gives, as an object or as the text of one, every argument
\* that the tool definition of its function marks as required
SuppliesRequired ==
    LET given == ParseStringArguments(arguments)
    IN  /\ given.t = "dict"
        /\ Required(function_name) \subseteq DOMAIN given.d

\* C37: for each of the five function names, when the tool call gives every
\* required argument, execute_notion_tool makes its call of the Notion API
\* and returns neither the unknown-action nor a missing-parameter error.
C37_RequiredArgumentsSuffice ==
    (Executed /\ SuppliesRequired) =>
        /\ tool_result.called
        /\ DictGet(tool_result.result, "message", "") \notin
               {"Unknown action", "Database ID is required",
                "Page ID and properties are required"}

CalledWhileDisabled(t) ==
    /\ tasks[t].pc = "done"
    /\ ~tasks[t].hit
    /\ ~tasks[t].enabled

\* C39: a get_all_models call made while the API is switched off returns an
\* empty list, sends no GET to a provider and leaves OPENAI_MODELS as the
\* last merge published it; the completion request is then routed by that
\* map: 404 for an id the map does not hold, a call to the provider the
\* map names otherwise.
C39_DisabledKeepsCatalog ==
    \A t \in TaskIds :
        CalledWhileDisabled(t) =>
            /\ tasks[t].request_tasks = <<>>
            /\ tasks[t].models = <<>>
            /\ tasks[t].raised = ""
            /\ tasks[t].catalog = published
            /\ OPENAI_MODELS = published
            /\ tasks[t].model_id \notin DOMAIN published =>
                    tasks[t].status = 404 /\ tasks[t].call = <<>>
            /\ tasks[t].model_id \in DOMAIN published =>
                    \/ tasks[t].route_raised = "IndexError"
                    \/ /\ tasks[t].call # <<>>
                       /\ tasks[t].call[1].urlIdx = published[tasks[t].model_id]

\* after an update_config that switched the API off, a completion request
\* was sent upstream by the map published before
C39_Witness ==
    \E t \in TaskIds :
        /\ CalledWhileDisabled(t)
        /\ update.n > 0
        /\ published # NoModels
        /\ tasks[t].call # <<>>

====
